---- MODULE Spec2Model ----
(***************************************************************************)
(* State-machine model of the x-mcp server (raw-corpus revision): the      *)
(* two-tier profile cache (memoryCache + the twitter_profiles table), the  *)
(* paginated acquisition loop getUserTweets, and the two tools             *)
(* analyze_twitter_profile and generate_tweet that drive them.             *)
(*                                                                         *)
(* JavaScript is single threaded: the code between two awaits runs         *)
(* atomically, so one action of the model is one such run.  A request      *)
(* suspends at an upstream page request ("fetch_wait"), at a durable       *)
(* select ("get_wait") and at a durable insert ("store_wait").             *)
(* Optional values (undefined / null) are sequences of length 0 or 1.      *)
(* Strings whose content matters are sequences of one-character strings.   *)
(***************************************************************************)
EXTENDS Integers, Sequences, FiniteSets, TLC

\* ------------------------------------------------------------------ bounds
MaxTicks == 1
MaxStarts == 2
MaxTarget == 3
MaxPosts == 4
MaxList == 3
MaxNames == 2
MaxSessions == 2
MaxMessages == 2

\* ------------------------------------------------------- program constants
CACHE_EXPIRY_HOURS == 24
MAX_REQUESTS == 5
TARGET_COUNT == 100
MAX_EXAMPLES == 15
MsPerHour == 1000 * 60 * 60
MsPerMinute == 1000 * 60

\* --------------------------------------------------------- generic helpers
Some(x) == <<x>>
Nothing == <<>>
IsSome(o) == o # <<>>
The(o) == o[1]

MapSeq(s, F(_)) == [i \in 1..Len(s) |-> F(s[i])]

\* const x = value; F(x): the value is computed once
bind(value, F(_)) == CHOOSE r \in {F(x) : x \in {value}} : TRUE

\* (variant: nothing is cut off)
slice0_keepAll(s, n) == s

\* Array.prototype.slice(0, n)
slice0(s, n) == IF Len(s) <= n THEN s ELSE SubSeq(s, 1, n)

\* String.prototype.startsWith
startsWith(s, p) == Len(s) >= Len(p) /\ SubSeq(s, 1, Len(p)) = p

\* ------------------------------------------------------------------- data
\* Handles as the callers can type them.
H == <<"h">>
AtH == <<"@", "h">>
Usernames == {H, AtH}

RT_PREFIX == <<"R", "T", " ", "@">>
TextHello == <<"H", "i">>
TextNews == <<"N", "E", "W", "S", "!">>
TextRT == <<"R", "T", " ", "@", "x">>
TextMore == <<"m", "o", "r", "e">>

\* Raw upstream posts (RawPost): records whose key set varies.
RawHello == [id |-> "1", text |-> TextHello, createdAt |-> "d1", likeCount |-> 3]
RawNews == [id |-> "2", text |-> TextNews, created_at |-> "d2", like_count |-> 0]
RawRT == [id |-> "3", text |-> TextRT, createdAt |-> "d3", likeCount |-> 1]
RawFlagged == [id |-> "4", text |-> TextMore, isRetweet |-> TRUE]
RawMore == [tweet_id |-> "5", text |-> TextMore, retweeted |-> FALSE]
\* a repost in the shape that names the text tweet_text
RawAltRT == [tweet_id |-> "6", tweet_text |-> TextRT]

\* a post without text (media only), in the primary shape
RawBlank == [id |-> "7", text |-> <<>>, likeCount |-> 0]
\* the i-th post of a long timeline
ManyIds ==
    <<"m1", "m2", "m3", "m4", "m5", "m6", "m7", "m8", "m9", "m10", "m11", "m12", "m13",
      "m14", "m15", "m16">>
RawMany(i) == [id |-> ManyIds[i], text |-> TextMore, likeCount |-> 0]

\* ------------------------------------------------------ record normalizer
\* JavaScript `a.k1 || a.k2 || dflt` over string-valued fields: the first key
\* that is present with a truthy (non-empty) value wins.
RECURSIVE firstTruthy(_, _, _, _)
firstTruthy(tweet, keys, falsy, dflt) ==
    IF keys = <<>> THEN dflt
    ELSE IF Head(keys) \in DOMAIN tweet /\ tweet[Head(keys)] # falsy
         THEN tweet[Head(keys)]
         ELSE firstTruthy(tweet, Tail(keys), falsy, dflt)

\* the characters \w matches
WordChars ==
    {"a", "b", "c", "d", "e", "f", "g", "h", "i", "j", "k", "l", "m", "n", "o", "p",
     "q", "r", "s", "t", "u", "v", "w", "x", "y", "z", "A", "B", "C", "D", "E", "F",
     "G", "H", "I", "J", "K", "L", "M", "N", "O", "P", "Q", "R", "S", "T", "U", "V",
     "W", "X", "Y", "Z", "0", "1", "2", "3", "4", "5", "6", "7", "8", "9", "_"}

\* the length of the run of word characters that starts at position i
RECURSIVE wordRun(_, _)
wordRun(text, i) ==
    IF i <= Len(text) /\ text[i] \in WordChars THEN 1 + wordRun(text, i + 1) ELSE 0

\* (text.match(/#(\w+)/g) || []).map(tag => tag.substring(1)), from position
\* i on, for the mark "#" or "@"
RECURSIVE matchTagged(_, _, _)
matchTagged(text, mark, i) ==
    IF i > Len(text) THEN <<>>
    ELSE IF text[i] = mark /\ wordRun(text, i + 1) > 0
         THEN <<SubSeq(text, i + 1, i + wordRun(text, i + 1))>>
              \o matchTagged(text, mark, i + wordRun(text, i + 1) + 1)
         ELSE matchTagged(text, mark, i + 1)

\* tweet.entities?.<list>?.length is truthy
hasEntities(tweet, list) ==
    /\ "entities" \in DOMAIN tweet
    /\ list \in DOMAIN tweet.entities
    /\ Len(tweet.entities[list]) > 0

\* item.k1 || item.k2 || item, for the items of an entities list
entityValue(item, keys) == firstTruthy(item, keys, <<>>, item)

extractHashtags(tweet) ==
    IF hasEntities(tweet, "hashtags")
    THEN [i \in 1..Len(tweet.entities.hashtags) |->
             entityValue(tweet.entities.hashtags[i], <<"text">>)]
    ELSE IF "text" \in DOMAIN tweet /\ tweet.text # <<>>
         THEN matchTagged(tweet.text, "#", 1)
         ELSE <<>>

extractMentions(tweet) ==
    IF hasEntities(tweet, "user_mentions")
    THEN [i \in 1..Len(tweet.entities.user_mentions) |->
             entityValue(tweet.entities.user_mentions[i], <<"screen_name", "username">>)]
    ELSE IF "text" \in DOMAIN tweet /\ tweet.text # <<>>
         THEN matchTagged(tweet.text, "@", 1)
         ELSE <<>>

extractUrls(tweet) ==
    IF hasEntities(tweet, "urls")
    THEN [i \in 1..Len(tweet.entities.urls) |->
             entityValue(tweet.entities.urls[i], <<"expanded_url", "url">>)]
    ELSE <<>>

\* The argument is an optional value: Nothing for null or undefined,
\* Some(object) for an object.
normalizeTweetData(tweet) ==
    IF ~ IsSome(tweet)
    THEN [id |-> "", text |-> <<>>, like_count |-> 0, retweet_count |-> 0,
          reply_count |-> 0, quote_count |-> 0]
    ELSE LET tw == The(tweet) IN
         IF "likeCount" \in DOMAIN tw
         THEN [id |-> firstTruthy(tw, <<"id">>, "", ""),
               text |-> firstTruthy(tw, <<"text">>, <<>>, <<>>),
               like_count |-> firstTruthy(tw, <<"likeCount">>, 0, 0),
               retweet_count |-> firstTruthy(tw, <<"retweetCount">>, 0, 0),
               reply_count |-> firstTruthy(tw, <<"replyCount">>, 0, 0),
               quote_count |-> firstTruthy(tw, <<"quoteCount">>, 0, 0),
               created_at |-> firstTruthy(tw, <<"createdAt">>, "", ""),
               is_reply |-> firstTruthy(tw, <<"isReply">>, FALSE, FALSE),
               hashtags |-> extractHashtags(tw),
               mentions |-> extractMentions(tw),
               urls |-> extractUrls(tw),
               language |-> firstTruthy(tw, <<"lang">>, "", "")]
         ELSE [id |-> firstTruthy(tw, <<"id", "tweet_id">>, "", ""),
               text |-> firstTruthy(tw, <<"text", "tweet_text", "content">>, <<>>, <<>>),
               like_count |->
                   firstTruthy(tw, <<"likeCount", "like_count", "favorites">>, 0, 0),
               retweet_count |-> firstTruthy(tw, <<"retweetCount", "retweet_count">>, 0, 0),
               reply_count |-> firstTruthy(tw, <<"replyCount", "reply_count">>, 0, 0),
               quote_count |-> firstTruthy(tw, <<"quoteCount", "quote_count">>, 0, 0),
               created_at |-> firstTruthy(tw, <<"createdAt", "created_at">>, "", ""),
               is_reply |-> firstTruthy(tw, <<"isReply", "is_reply">>, FALSE, FALSE),
               hashtags |-> extractHashtags(tw),
               mentions |-> extractMentions(tw),
               urls |-> extractUrls(tw),
               language |-> firstTruthy(tw, <<"lang", "language">>, "", "")]

\* ------------------------------------------------------- style analyzer
\* analyzeTweets of the analyzer revision of the server.  Rates are kept as
\* integers: avg_length in tenths, the usages and frequencies in hundredths.
\* [A-Z]
UpperChars ==
    {"A", "B", "C", "D", "E", "F", "G", "H", "I", "J", "K", "L", "M", "N", "O", "P",
     "Q", "R", "S", "T", "U", "V", "W", "X", "Y", "Z"}
\* A text is a sequence of UTF-16 code units, as String.length counts them.
\* The code points of U+1F300..U+1F6FF among those the texts are made of, as
\* surrogate pairs: U+1F680
EmojiPairs == {<<"D83D", "DE80">>}

\* parseFloat((a / b).toFixed(digits)), scaled by 10^digits (scale)
toFixed(a, b, scale) == (2 * a * scale + b) \div (2 * b)

\* array.reduce((sum, x) => sum + x, 0)
RECURSIVE sumSeq(_)
sumSeq(s) == IF s = <<>> THEN 0 ELSE Head(s) + sumSeq(Tail(s))

\* (text.match(/c/g) || []).length for a single character c
countChar(text, c) == Cardinality({i \in 1..Len(text) : text[i] = c})

includesChar(text, chars) == \E i \in 1..Len(text) : text[i] \in chars

\* (text.match(/\b[A-Z]{2,}\b/g) || []).length: the maximal runs of word
\* characters that have two or more characters, all of them capitals
allCapsRuns(text) ==
    Cardinality({i \in 1..Len(text) :
        /\ text[i] \in WordChars
        /\ (i = 1 \/ text[i - 1] \notin WordChars)
        /\ wordRun(text, i) >= 2
        /\ \A j \in i..(i + wordRun(text, i) - 1) : text[j] \in UpperChars})

\* addFrom of extractRepresentativeTweets: set is the Set in insertion order,
\* arr is read from position i on
RECURSIVE addFrom(_, _, _, _)
addFrom(set, arr, i, count) ==
    IF i > Len(arr) THEN set
    ELSE LET text == arr[i].text
             added == IF (\A j \in 1..Len(set) : set[j] # text) /\ Len(text) > 0
                      THEN Append(set, text) ELSE set
         IN IF Len(added) >= count THEN added ELSE addFrom(added, arr, i + 1, count)

isShort(t) == Len(t.text) < 40
isLong(t) == Len(t.text) > 120
hasEmoji(t) ==
    \E i \in 1..(Len(t.text) - 1) : <<t.text[i], t.text[i + 1]>> \in EmojiPairs
hasQuestionOrExclamation(t) == includesChar(t.text, {"?", "!"})

\* (variant: the question and exclamation bucket is filled first)
extractRepresentativeTweets_questionsFirst(normalizedTweets, count) ==
    LET short == SelectSeq(normalizedTweets, isShort)
        long == SelectSeq(normalizedTweets, isLong)
        emoji == SelectSeq(normalizedTweets, hasEmoji)
        questions == SelectSeq(normalizedTweets, hasQuestionOrExclamation)
        set == addFrom(addFrom(addFrom(addFrom(addFrom(<<>>, questions, 1, count),
                                               short, 1, count),
                                       long, 1, count),
                               emoji, 1, count),
                       normalizedTweets, 1, count)
    IN slice0(set, count)

extractRepresentativeTweets(normalizedTweets, count) ==
    LET short == SelectSeq(normalizedTweets, isShort)
        long == SelectSeq(normalizedTweets, isLong)
        emoji == SelectSeq(normalizedTweets, hasEmoji)
        questions == SelectSeq(normalizedTweets, hasQuestionOrExclamation)
        set == addFrom(addFrom(addFrom(addFrom(addFrom(<<>>, short, 1, count),
                                               long, 1, count),
                                       emoji, 1, count),
                               questions, 1, count),
                       normalizedTweets, 1, count)
    IN slice0(set, count)

\* ------------------------------------------------------- style signature
\* a JavaScript number that a division may have made NaN or Infinity:
\* parseFloat((a / b).toFixed(digits)), the value scaled by 10^digits (scale)
jsQuotient(a, b, scale) ==
    IF b = 0
    THEN IF a = 0 THEN [kind |-> "NaN"] ELSE [kind |-> "Infinity"]
    ELSE [kind |-> "number", value |-> toFixed(a, b, scale)]

\* x > limit for such a number and a finite limit
jsGreater(x, limit) ==
    \/ x.kind = "Infinity"
    \/ x.kind = "number" /\ x.value > limit

\* tweetTexts.join(" ")
RECURSIVE joinTexts(_)
joinTexts(tweetTexts) ==
    IF tweetTexts = <<>> THEN <<>>
    ELSE IF Len(tweetTexts) = 1 THEN Head(tweetTexts)
    ELSE Head(tweetTexts) \o <<" ">> \o joinTexts(Tail(tweetTexts))

\* the length of the run of characters outside the set seps that starts at i
RECURSIVE runOutside(_, _, _)
runOutside(text, i, seps) ==
    IF i <= Len(text) /\ text[i] \notin seps THEN 1 + runOutside(text, i + 1, seps) ELSE 0

\* text.split(/[seps]+/).filter(Boolean): the maximal runs of characters
\* outside seps, by their first positions
piecesOf(text, seps) ==
    {i \in 1..Len(text) : text[i] \notin seps /\ (i = 1 \/ text[i - 1] \in seps)}

\* \s, among the characters the texts are made of
Whitespace == {" "}

\* [.!?]
Terminators == {".", "!", "?"}

LowerOf ==
    "A" :> "a" @@ "B" :> "b" @@ "C" :> "c" @@ "D" :> "d" @@ "E" :> "e" @@
    "F" :> "f" @@ "G" :> "g" @@ "H" :> "h" @@ "I" :> "i" @@ "J" :> "j" @@
    "K" :> "k" @@ "L" :> "l" @@ "M" :> "m" @@ "N" :> "n" @@ "O" :> "o" @@
    "P" :> "p" @@ "Q" :> "q" @@ "R" :> "r" @@ "S" :> "s" @@ "T" :> "t" @@
    "U" :> "u" @@ "V" :> "v" @@ "W" :> "w" @@ "X" :> "x" @@ "Y" :> "y" @@
    "Z" :> "z"
toLowerCase(text) ==
    [i \in 1..Len(text) |-> IF text[i] \in DOMAIN LowerOf THEN LowerOf[text[i]] ELSE text[i]]

\* the code units matched by /([U+231A-U+FE0F]|[U+D83C-U+DBFF U+DC00-U+DFFF])/g,
\* one match each, among those the texts are made of: the halves of the
\* surrogate pairs of U+1F680, U+1F602 and U+1F923
EmojiUnits == {"D83D", "DE80", "DE02", "D83E", "DD23"}

\* (text.match(/\.\.\./g) || []).length from position i on
RECURSIVE ellipsesFrom(_, _)
ellipsesFrom(text, i) ==
    IF i + 2 > Len(text) THEN 0
    ELSE IF text[i] = "." /\ text[i + 1] = "." /\ text[i + 2] = "."
         THEN 1 + ellipsesFrom(text, i + 3)
         ELSE ellipsesFrom(text, i + 1)

\* (text.match(/\b[A-Z]{3,}\b/g) || []).length
allCapsRuns3(text) ==
    Cardinality({i \in 1..Len(text) :
        /\ text[i] \in WordChars
        /\ (i = 1 \/ text[i - 1] \notin WordChars)
        /\ wordRun(text, i) >= 3
        /\ \A j \in i..(i + wordRun(text, i) - 1) : text[j] \in UpperChars})

writingStyleOf(allText, tweetCount) ==
    LET sentences == Cardinality(piecesOf(allText, Terminators))
        wordStarts == piecesOf(allText, Whitespace)
        words == Cardinality(wordStarts)
        uniqueWords ==
            {toLowerCase(SubSeq(allText, i, i + runOutside(allText, i, Whitespace) - 1)) :
                i \in wordStarts}
        emojis == Cardinality({i \in 1..Len(allText) : allText[i] \in EmojiUnits})
        allCaps == allCapsRuns3(allText)
    IN [avg_sentence_length |-> jsQuotient(words, sentences, 10),
        emoji_usage |-> jsQuotient(emojis, tweetCount, 100),
        punctuation_patterns |->
            [exclamation |-> countChar(allText, "!"),
             question |-> countChar(allText, "?"),
             ellipsis |-> ellipsesFrom(allText, 1),
             all_caps |-> allCaps],
        capitalization_style |-> IF 10 * allCaps > 2 * tweetCount
                                 THEN "emphatic" ELSE "normal",
        word_richness |-> jsQuotient(Cardinality(uniqueWords), words, 100)]

analyzeWritingStyle(tweetTexts) ==
    bind(joinTexts(tweetTexts), LAMBDA allText : writingStyleOf(allText, Len(tweetTexts)))

\* allText.includes(kw)
includesText(text, kw) ==
    \E i \in 1..(Len(text) - Len(kw) + 1) : SubSeq(text, i, i + Len(kw) - 1) = kw

keywordMap ==
    <<[theme |-> "ai",
       keywords |-> {<<"a", "i">>,
                     <<"a", "r", "t", "i", "f", "i", "c", "i", "a", "l", " ", "i", "n", "t", "e", "l", "l", "i", "g", "e", "n", "c", "e">>,
                     <<"g", "p", "t">>,
                     <<"o", "p", "e", "n", "a", "i">>,
                     <<"l", "l", "m">>,
                     <<"c", "h", "a", "t", "g", "p", "t">>}],
      [theme |-> "crypto",
       keywords |-> {<<"b", "i", "t", "c", "o", "i", "n">>,
                     <<"e", "t", "h", "e", "r", "e", "u", "m">>,
                     <<"c", "r", "y", "p", "t", "o">>,
                     <<"w", "e", "b", "3">>,
                     <<"n", "f", "t">>,
                     <<"b", "l", "o", "c", "k", "c", "h", "a", "i", "n">>}],
      [theme |-> "politics",
       keywords |-> {<<"b", "i", "d", "e", "n">>,
                     <<"t", "r", "u", "m", "p">>,
                     <<"s", "e", "n", "a", "t", "e">>,
                     <<"l", "a", "w">>,
                     <<"p", "o", "l", "i", "c", "y">>,
                     <<"g", "o", "v", "e", "r", "n", "m", "e", "n", "t">>}],
      [theme |-> "tech",
       keywords |-> {<<"t", "e", "s", "l", "a">>,
                     <<"a", "p", "p", "l", "e">>,
                     <<"n", "a", "s", "a">>,
                     <<"s", "t", "a", "r", "t", "u", "p">>,
                     <<"t", "e", "c", "h">>,
                     <<"s", "o", "f", "t", "w", "a", "r", "e">>,
                     <<"h", "a", "r", "d", "w", "a", "r", "e">>}],
      [theme |-> "space",
       keywords |-> {<<"s", "p", "a", "c", "e", "x">>,
                     <<"m", "a", "r", "s">>,
                     <<"r", "o", "c", "k", "e", "t">>,
                     <<"n", "a", "s", "a">>,
                     <<"e", "l", "o", "n">>}],
      [theme |-> "humor",
       keywords |-> {<<"D83D", "DE02">>,
                     <<"D83E", "DD23">>,
                     <<"l", "o", "l">>,
                     <<"f", "u", "n", "n", "y">>,
                     <<"j", "o", "k", "e">>,
                     <<"m", "e", "m", "e">>}],
      [theme |-> "finance",
       keywords |-> {<<"s", "t", "o", "c", "k">>,
                     <<"m", "a", "r", "k", "e", "t">>,
                     <<"i", "n", "v", "e", "s", "t", "m", "e", "n", "t">>,
                     <<"m", "o", "n", "e", "y">>,
                     <<"n", "a", "s", "d", "a", "q">>,
                     <<"t", "r", "a", "d", "i", "n", "g">>}],
      [theme |-> "climate",
       keywords |-> {<<"c", "l", "i", "m", "a", "t", "e">>,
                     <<"g", "r", "e", "e", "n">>,
                     <<"e", "n", "e", "r", "g", "y">>,
                     <<"e", "m", "i", "s", "s", "i", "o", "n", "s">>,
                     <<"c", "a", "r", "b", "o", "n">>}],
      [theme |-> "motivation",
       keywords |-> {<<"g", "r", "i", "n", "d">>,
                     <<"h", "u", "s", "t", "l", "e">>,
                     <<"m", "i", "n", "d", "s", "e", "t">>,
                     <<"d", "i", "s", "c", "i", "p", "l", "i", "n", "e">>,
                     <<"s", "u", "c", "c", "e", "s", "s">>}],
      [theme |-> "war",
       keywords |-> {<<"u", "k", "r", "a", "i", "n", "e">>,
                     <<"r", "u", "s", "s", "i", "a">>,
                     <<"w", "a", "r">>,
                     <<"n", "a", "t", "o">>,
                     <<"a", "r", "m", "y">>,
                     <<"m", "i", "l", "i", "t", "a", "r", "y">>}],
      [theme |-> "freedom",
       keywords |-> {<<"f", "r", "e", "e", "d", "o", "m">>,
                     <<"l", "i", "b", "e", "r", "t", "y">>,
                     <<"r", "i", "g", "h", "t", "s">>,
                     <<"s", "p", "e", "e", "c", "h">>,
                     <<"c", "e", "n", "s", "o", "r", "s", "h", "i", "p">>}],
      [theme |-> "philosophy",
       keywords |-> {<<"t", "r", "u", "t", "h">>,
                     <<"r", "e", "a", "l", "i", "t", "y">>,
                     <<"m", "e", "a", "n", "i", "n", "g">>,
                     <<"e", "x", "i", "s", "t", "e", "n", "t", "i", "a", "l">>,
                     <<"l", "o", "g", "i", "c">>}],
      [theme |-> "memes",
       keywords |-> {<<"m", "e", "m", "e">>,
                     <<"s", "h", "i", "t", "p", "o", "s", "t">>,
                     <<"c", "r", "i", "n", "g", "e">>,
                     <<"v", "i", "r", "a", "l">>,
                     <<"t", "r", "e", "n", "d">>}]>>
isThemeOf(text, entry) == \E kw \in entry.keywords : includesText(text, kw)

themesOf(allText) ==
    LET hits == SelectSeq(keywordMap, LAMBDA entry : isThemeOf(allText, entry))
    IN [i \in 1..Len(hits) |-> hits[i].theme]

extractContentThemes(tweetTexts) ==
    bind(toLowerCase(joinTexts(tweetTexts)), LAMBDA allText : themesOf(allText))

\* traits.includes(x), contentThemes.includes(x)
includes(list, x) == \E i \in 1..Len(list) : list[i] = x

\* detectSignatureTraits; the rates are in hundredths and avg_length in
\* tenths, as toFixed leaves them
detectSignatureTraits(metrics, writingStyle, contentThemes) ==
    (IF metrics.avg_length < 500 THEN <<"minimalist">> ELSE <<>>)
    \o (IF metrics.exclamation_frequency > 20 THEN <<"emphatic">> ELSE <<>>)
    \o (IF jsGreater(writingStyle.emoji_usage, 10) THEN <<"expressive">> ELSE <<>>)
    \o (IF includes(contentThemes, "humor") \/ includes(contentThemes, "memes")
        THEN <<"humorous">> ELSE <<>>)
    \o (IF metrics.mention_usage > 60 THEN <<"connector">> ELSE <<>>)

\* (variant: the humorous rule is tried first)
inferPersonalityType_memerFirst(traits) ==
    IF includes(traits, "humorous") THEN "the memer"
    ELSE IF includes(traits, "minimalist") /\ includes(traits, "emphatic")
    THEN "the provocateur"
    ELSE IF includes(traits, "connector") /\ includes(traits, "expressive")
    THEN "the influencer"
    ELSE IF includes(traits, "expressive") /\ includes(traits, "minimalist") = FALSE
    THEN "the poet"
    ELSE "the poster"

inferPersonalityType(traits) ==
    IF includes(traits, "minimalist") /\ includes(traits, "emphatic")
    THEN "the provocateur"
    ELSE IF includes(traits, "connector") /\ includes(traits, "expressive")
    THEN "the influencer"
    ELSE IF includes(traits, "humorous") THEN "the memer"
    ELSE IF includes(traits, "expressive") /\ includes(traits, "minimalist") = FALSE
    THEN "the poet"
    ELSE "the poster"

\* style_assessment.tone; x > n * 0.3 is 10 * x > 3 * n
toneOf(exclamationCount, questionCount, n) ==
    IF exclamationCount > questionCount
    THEN IF 10 * exclamationCount > 3 * n THEN "emphatic" ELSE "assertive"
    ELSE IF 10 * questionCount > 3 * n THEN "inquisitive" ELSE "neutral"

textLength(text) == Len(text)
hasText(tweet) == tweet.text # <<>>
textOf(tweet) == tweet.text
hashtagsOf(tweet) == IF "hashtags" \in DOMAIN tweet THEN Len(tweet.hashtags) ELSE 0
mentionsOf(tweet) == IF "mentions" \in DOMAIN tweet THEN Len(tweet.mentions) ELSE 0
exclamationsOf(text) == countChar(text, "!")
questionsOf(text) == countChar(text, "?")

\* analyzeTweets from the metrics on, with normalizedTweets and tweetTexts at
\* hand
profileOf(normalizedTweets, tweetTexts, exampleTweets, t) ==
    LET n == Len(normalizedTweets)
        totalLength == sumSeq(MapSeq(tweetTexts, textLength))
        hashtagCount == sumSeq(MapSeq(normalizedTweets, hashtagsOf))
        mentionCount == sumSeq(MapSeq(normalizedTweets, mentionsOf))
        exclamationCount == sumSeq(MapSeq(tweetTexts, exclamationsOf))
        questionCount == sumSeq(MapSeq(tweetTexts, questionsOf))
        allCapsWords == sumSeq(MapSeq(tweetTexts, allCapsRuns))
    IN bind([tweet_count |-> n,
             avg_length |-> IF Len(tweetTexts) > 0
                            THEN toFixed(totalLength, Len(tweetTexts), 10) ELSE 0,
             hashtag_usage |-> toFixed(hashtagCount, n, 100),
             mention_usage |-> toFixed(mentionCount, n, 100),
             exclamation_frequency |-> toFixed(exclamationCount, n, 100),
             question_frequency |-> toFixed(questionCount, n, 100)],
            LAMBDA metrics :
       bind(analyzeWritingStyle(tweetTexts), LAMBDA writingStyle :
       bind(extractContentThemes(tweetTexts), LAMBDA contentThemes :
       bind(detectSignatureTraits(metrics, writingStyle, contentThemes),
            LAMBDA signatureTraits :
            [metrics |-> metrics,
             style_assessment |->
                 [formality |-> IF Len(tweetTexts) > 0
                                   /\ totalLength > 120 * Len(tweetTexts)
                                THEN "formal" ELSE "casual",
                  hashtag_frequency |-> IF metrics.hashtag_usage > 100 THEN "high" ELSE "low",
                  engagement |-> IF metrics.mention_usage > 50 THEN "high" ELSE "low",
                  tone |-> toneOf(exclamationCount, questionCount, n),
                  capitalization |-> IF 10 * allCapsWords > 2 * n
                                     THEN "emphatic" ELSE "normal"],
             style_signature |->
                 [writing_style |-> writingStyle,
                  content_focus |-> contentThemes,
                  signature_traits |-> signatureTraits,
                  personality_type |-> inferPersonalityType(signatureTraits)],
             example_tweets |-> exampleTweets,
             analyzed_at |-> t]))))

\* (variant: the examples are picked starting from a position that depends
\* on the clock)
analyzeTweets_clockExamples(tweets, t) ==
    IF ~ IsSome(tweets) \/ Len(The(tweets)) = 0
    THEN [error |-> "No tweets available for analysis"]
    ELSE bind(MapSeq(The(tweets), normalizeTweetData), LAMBDA normalizedTweets :
         bind(MapSeq(SelectSeq(normalizedTweets, hasText), textOf), LAMBDA tweetTexts :
              profileOf(normalizedTweets, tweetTexts,
                        extractRepresentativeTweets(
                            IF t % 2 = 0 THEN normalizedTweets ELSE Tail(normalizedTweets),
                            10),
                        t)))

\* tweets is an optional list (Nothing for null or undefined) of optional raw
\* posts; t is the clock read by new Date()
analyzeTweets(tweets, t) ==
    IF ~ IsSome(tweets) \/ Len(The(tweets)) = 0
    THEN [error |-> "No tweets available for analysis"]
    ELSE bind(MapSeq(The(tweets), normalizeTweetData), LAMBDA normalizedTweets :
         bind(MapSeq(SelectSeq(normalizedTweets, hasText), textOf), LAMBDA tweetTexts :
              profileOf(normalizedTweets, tweetTexts,
                        extractRepresentativeTweets(normalizedTweets, 10), t)))

\* ------------------------------------------------- acquisition controller
cleanUsername(username) ==
    IF startsWith(username, <<"@">>) THEN Tail(username) ELSE username

\* the predicate of pageTweets.filter(...): TRUE for the posts that are kept
isOriginalTweet(tweet) ==
    ~ (   ("text" \in DOMAIN tweet /\ tweet.text # <<>> /\ startsWith(tweet.text, RT_PREFIX))
       \/ ("isRetweet" \in DOMAIN tweet /\ tweet.isRetweet = TRUE)
       \/ ("retweeted" \in DOMAIN tweet /\ tweet.retweeted = TRUE))

\* The upstream source is an opaque paginated API.  A world fixes what the
\* account's timeline looks like; Upstream gives the page for a cursor.
Worlds == {"A", "two", "empty", "allRT", "missing", "endless", "altRT"}
CacheWorlds == {"A"}

ErrorResponse == [status |-> "error", message |-> "API request failed"]

Upstream(w, cursor) ==
    CASE w = "A" ->
           [status |-> "success", tweets |-> <<RawHello, RawNews, RawRT>>]
      [] w = "two" /\ cursor = "" ->
           [status |-> "success",
            data |-> [tweets |-> <<RawHello, RawFlagged>>, next_cursor |-> "c1"]]
      [] w = "two" /\ cursor # "" ->
           [status |-> "success", tweets |-> <<RawMore>>, next_cursor |-> ""]
      [] w = "empty" ->
           [status |-> "success", data |-> [tweets |-> <<>>, next_cursor |-> "c1"]]
      [] w = "allRT" /\ cursor = "" ->
           [status |-> "success", data |-> [tweets |-> <<RawRT>>, next_cursor |-> "c1"]]
      [] w = "allRT" /\ cursor # "" ->
           [status |-> "success", tweets |-> <<RawHello>>]
      [] w = "missing" ->
           [status |-> "success", msg |-> "user not found"]
      [] w = "altRT" ->
           [status |-> "success", tweets |-> <<RawHello, RawAltRT>>]
      [] OTHER ->
           [status |-> "success", tweets |-> <<RawMore>>, next_cursor |-> "c1"]

\* One pass through the body of the while loop of getUserTweets, from the
\* arrival of the response to the re-evaluation of the loop condition.
\* f = [allTweets, cursor, requestCount]; the result adds hasMore.
pageOf(response) ==
    IF "data" \in DOMAIN response /\ "tweets" \in DOMAIN response.data
    THEN Some(response.data.tweets)
    ELSE IF "tweets" \in DOMAIN response THEN Some(response.tweets)
    ELSE Nothing

\* (variant: only the top-level next_cursor is probed)
nextCursorOf_topOnly(response) ==
    IF "next_cursor" \in DOMAIN response /\ response.next_cursor # ""
    THEN Some(response.next_cursor)
    ELSE Nothing

nextCursorOf(response) ==
    IF "data" \in DOMAIN response /\ "next_cursor" \in DOMAIN response.data
       /\ response.data.next_cursor # ""
    THEN Some(response.data.next_cursor)
    ELSE IF "next_cursor" \in DOMAIN response /\ response.next_cursor # ""
    THEN Some(response.next_cursor)
    ELSE Nothing

\* (variant: a failed page request discards what has been accumulated)
loopBody_dropOnError(f, response) ==
    LET counted == [f EXCEPT !.requestCount = @ + 1] IN
    IF response.status # "success"
    THEN [counted EXCEPT !.hasMore = FALSE, !.broke = TRUE, !.allTweets = <<>>]
    ELSE IF ~ IsSome(pageOf(response)) THEN [counted EXCEPT !.hasMore = FALSE, !.broke = TRUE]
    ELSE LET pageTweets == The(pageOf(response))
             originalTweets == SelectSeq(pageTweets, isOriginalTweet)
             nc == nextCursorOf(response)
         IN [counted EXCEPT
               !.allTweets = @ \o originalTweets,
               !.cursor = IF IsSome(nc) THEN The(nc) ELSE @,
               !.hasMore = IsSome(nc) /\ Len(pageTweets) # 0]

\* (variant: the cursor of the response is not taken over)
loopBody_staleCursor(f, response) ==
    LET counted == [f EXCEPT !.requestCount = @ + 1] IN
    IF response.status # "success" THEN [counted EXCEPT !.hasMore = FALSE, !.broke = TRUE]
    ELSE IF ~ IsSome(pageOf(response)) THEN [counted EXCEPT !.hasMore = FALSE, !.broke = TRUE]
    ELSE LET pageTweets == The(pageOf(response))
             originalTweets == SelectSeq(pageTweets, isOriginalTweet)
             nc == nextCursorOf(response)
         IN [counted EXCEPT
               !.allTweets = @ \o originalTweets,
               !.hasMore = IsSome(nc) /\ Len(pageTweets) # 0]

loopBody(f, response) ==
    LET counted == [f EXCEPT !.requestCount = @ + 1] IN
    IF response.status # "success" THEN [counted EXCEPT !.hasMore = FALSE, !.broke = TRUE]
    ELSE IF ~ IsSome(pageOf(response)) THEN [counted EXCEPT !.hasMore = FALSE, !.broke = TRUE]
    ELSE LET pageTweets == The(pageOf(response))
             originalTweets == SelectSeq(pageTweets, isOriginalTweet)
             nc == nextCursorOf(response)
         IN [counted EXCEPT
               !.allTweets = @ \o originalTweets,
               !.cursor = IF IsSome(nc) THEN The(nc) ELSE @,
               !.hasMore = IsSome(nc) /\ Len(pageTweets) # 0]

\* (variant: the request limit is tested with <=)
loopCondition_sixRequests(f, targetCount) ==
    f.hasMore /\ ~ f.broke /\ Len(f.allTweets) < targetCount /\ f.requestCount <= MAX_REQUESTS

\* (variant: the request limit is one lower)
loopCondition_fourRequests(f, targetCount) ==
    f.hasMore /\ ~ f.broke /\ Len(f.allTweets) < targetCount
              /\ f.requestCount < MAX_REQUESTS - 1

loopCondition(f, targetCount) ==
    f.hasMore /\ ~ f.broke /\ Len(f.allTweets) < targetCount /\ f.requestCount < MAX_REQUESTS

\* --------------------------------------------------------- profile cache
\* (variant: the age truncated to whole hours before the comparison)
withinExpiry_wholeHours(created_at, t) ==
    ((t - created_at) \div MsPerHour) <= CACHE_EXPIRY_HOURS

\* ageHours <= CACHE_EXPIRY_HOURS with ageHours = (now - created) / (1000*60*60),
\* a real-valued quotient: the comparison is exact on the millisecond.
withinExpiry(created_at, t) == (t - created_at) <= CACHE_EXPIRY_HOURS * MsPerHour

\* (variant: an existing entry is updated field by field and keeps its id)
mapSet_mergeFields(m, key, value) ==
    [k \in DOMAIN m \cup {key} |->
        IF k # key THEN m[k]
        ELSE IF key \in DOMAIN m THEN [value EXCEPT !.id = m[key].id] ELSE value]

\* memoryCache.set(key, value)
mapSet(m, key, value) ==
    [k \in DOMAIN m \cup {key} |-> IF k = key THEN value ELSE m[k]]

\* (variant: the in-process tier is not consulted)
memoryLookup_skipped(m, username, t) == Nothing

\* the in-process part of getCachedProfile: a hit only while within the TTL
memoryLookup(m, username, t) ==
    IF username \in DOMAIN m /\ withinExpiry(m[username].created_at, t)
    THEN Some([status |-> "fresh", profile |-> m[username]])
    ELSE Nothing

\* !profile.profile_data || !profile.profile_data.tweets
hasValidStructure(profile) ==
    /\ "profile_data" \in DOMAIN profile
    /\ IsSome(profile.profile_data)
    /\ "tweets" \in DOMAIN The(profile.profile_data)

\* (variant: the age of a durable row is not looked at)
classifyDurable_noTtl(reply, t) ==
    IF reply.error THEN Nothing
    ELSE IF reply.data = <<>> THEN Nothing
    ELSE LET profile == reply.data[1] IN
         IF ~ hasValidStructure(profile) THEN Some([status |-> "invalid", profile |-> profile])
         ELSE Some([status |-> "fresh", profile |-> profile])

\* (variant: no structural check, as in the analyzer revision of the server)
classifyDurable_unchecked(reply, t) ==
    IF reply.error THEN Nothing
    ELSE IF reply.data = <<>> THEN Nothing
    ELSE LET profile == reply.data[1] IN
         IF ~ withinExpiry(profile.created_at, t)
         THEN Some([status |-> "stale", profile |-> profile])
         ELSE Some([status |-> "fresh", profile |-> profile])

\* the durable part of getCachedProfile, run when the select has answered
classifyDurable(reply, t) ==
    IF reply.error THEN Nothing
    ELSE IF reply.data = <<>> THEN Nothing
    ELSE LET profile == reply.data[1] IN
         IF ~ hasValidStructure(profile) THEN Some([status |-> "invalid", profile |-> profile])
         ELSE IF ~ withinExpiry(profile.created_at, t)
              THEN Some([status |-> "stale", profile |-> profile])
              ELSE Some([status |-> "fresh", profile |-> profile])

\* .eq("handle", username).order("created_at", desc).limit(1)
latestByHandle(table, username) ==
    {p \in table : /\ p.handle = username
                   /\ \A q \in table : q.handle = username => q.created_at <= p.created_at}

\* what storeUserTweets builds before it writes
simplifyTweet(tweet) ==
    LET normalized == normalizeTweetData(Some(tweet)) IN
    [id |-> normalized.id, text |-> normalized.text, created_at |-> normalized.created_at]

buildRecord(profileId, username, tweets, t) ==
    [id |-> profileId,
     handle |-> username,
     profile_data |-> Some([tweets |-> MapSeq(tweets, simplifyTweet), analyzed_at |-> t]),
     created_at |-> t]

\* (variant: a failed insert is reported with status error)
storageResult_errorOnFailure(dbConfigured, insertFailed, profileId) ==
    IF dbConfigured
    THEN IF insertFailed
         THEN [status |-> "error", profile_id |-> profileId, storage |-> "memory"]
         ELSE [status |-> "success", profile_id |-> profileId, storage |-> "database"]
    ELSE [status |-> "success", profile_id |-> profileId, storage |-> "memory"]

\* the StorageResult of storeUserTweets
storageResult(dbConfigured, insertFailed, profileId) ==
    IF dbConfigured
    THEN IF insertFailed
         THEN [status |-> "partial", profile_id |-> profileId, storage |-> "memory"]
         ELSE [status |-> "success", profile_id |-> profileId, storage |-> "database"]
    ELSE [status |-> "success", profile_id |-> profileId, storage |-> "memory"]

\* ------------------------------------------------------------------ state
Req == {1, 2}

VARIABLES
    now,            \* the wall clock, in milliseconds
    ticks,          \* how often the clock has advanced
    useDatabase,    \* useDatabase && supabase: a durable store is configured
    memoryCache,    \* the Map username -> profile record
    twitter_profiles, \* the rows of the durable table
    world,          \* which timeline the upstream serves
    nextId,         \* stands for uuidv4(): the next unused profile id
    started,        \* tool invocations started so far
    everCached,     \* ids of the records storeUserTweets has put in the map
    server,         \* the process: its phase and the tools it has registered
    call,           \* a call of one of the pure functions: its input and output
    revision,       \* which transport layer of api/index.js runs, if any
    transports,     \* the registry session id -> transport of api/index.js
    sessions,       \* the SSE connections set up so far: open or closed
    messages,          \* the POSTs to the message endpoint so far
    req             \* the tool invocations: req[r] is one request

transportVars == <<revision, transports, sessions, messages>>
vars == <<now, ticks, useDatabase, memoryCache, twitter_profiles, world,
          nextId, started, everCached, server, call, req, transportVars>>

\* no transport layer runs: the server talks over stdio
NoTransport ==
    /\ revision = "stdio"
    /\ transports = <<>>
    /\ sessions = <<>>
    /\ messages = <<>>

\* no pure function is being exercised on its own
NoCall == [fn |-> "none"]

\* server.tool(name, ...): the tools of normal operation and of limited mode
NormalTools == {"check_server_config", "analyze_twitter_profile", "generate_tweet"}
LimitedTools == {"setup_instructions"}

\* the process once the module has run to its end with the credential present
NormalServer == [phase |-> "serving", apiKey |-> TRUE, tools |-> NormalTools]

\* a call of the tool reaches its handler: the tool is registered and the
\* transport is connected (or being connected) in a live process
Callable(tool) == server.phase \in {"connecting", "serving"} /\ tool \in server.tools

WaitLabels == {"get_wait", "fetch_wait", "store_wait"}
RestLabels == WaitLabels \cup {"idle", "done"}

IdleRequest ==
    [pc |-> "idle", tool |-> "none", usernames |-> <<>>, idx |-> 0, force |-> FALSE,
     cachedResult |-> Nothing, cachedResults |-> <<>>, pendingGet |-> Nothing,
     fetch |-> Nothing,
     fetched |-> <<>>, profileRecord |-> Nothing, dbop |-> Nothing, dbres |-> Nothing,
     stored |-> Nothing, userTweets |-> <<>>, result |-> Nothing,
     targetCount |-> TARGET_COUNT,
     upCalls |-> 0, getLog |-> <<>>, fetchLog |-> <<>>, putLog |-> <<>>, served |-> <<>>,
     pageLog |-> <<>>]

\* the username the request is working on
currentUsername(rq) == rq.usernames[rq.idx]

\* ------------------------------------------------------------ tool bodies
\* Each operator below is one synchronous stretch of a tool handler: it maps
\* the machine S = [rq, mem, nid, cached] (the request, memoryCache, the id
\* source, the ids cached so far) to the machine after the stretch.  t is the
\* clock and dbConfigured is useDatabase.

\* (variant: force_refresh is ignored and the cache is always consulted)
enterTool_cacheAlways(S) ==
    IF S.rq.tool = "analyze"
    THEN [S EXCEPT !.rq.idx = 1, !.rq.pc = "get"]
    ELSE IF Len(S.rq.usernames) = 0
         THEN [S EXCEPT !.rq.pc = "done",
                        !.rq.result = Some([isError |-> TRUE, kind |-> "no_usernames"])]
         ELSE [S EXCEPT !.rq.idx = 1, !.rq.pc = "get"]

\* entry of the handler of analyze_twitter_profile / generate_tweet
enterTool(S) ==
    IF S.rq.tool = "analyze"
    THEN [S EXCEPT !.rq.idx = 1, !.rq.pc = IF S.rq.force THEN "fetch" ELSE "get"]
    ELSE IF Len(S.rq.usernames) = 0
         THEN [S EXCEPT !.rq.pc = "done",
                        !.rq.result = Some([isError |-> TRUE, kind |-> "no_usernames"])]
         ELSE [S EXCEPT !.rq.idx = 1, !.rq.pc = "get"]

\* (variant: the durable store is asked first whenever it is configured)
getCachedProfile_durableFirst(S, t, dbConfigured) ==
    LET username == currentUsername(S.rq)
        hit == memoryLookup(S.mem, username, t)
        start == [idx |-> S.rq.idx, username |-> username, at |-> t,
                  memEntry |-> IF username \in DOMAIN S.mem
                               THEN Some(S.mem[username]) ELSE Nothing]
    IN IF dbConfigured
       THEN [S EXCEPT !.rq.pendingGet = Some(start), !.rq.pc = "get_wait",
                      !.rq.dbop = Some([op |-> "select", handle |-> username]),
                      !.rq.dbres = Nothing]
       ELSE [S EXCEPT !.rq.cachedResult = hit, !.rq.pc = "got",
                      !.rq.getLog = Append(@, [start |-> start, queried |-> FALSE,
                                                 doneAt |-> t, result |-> hit])]

\* getCachedProfile up to its return or its select
getCachedProfile(S, t, dbConfigured) ==
    LET username == currentUsername(S.rq)
        hit == memoryLookup(S.mem, username, t)
        start == [idx |-> S.rq.idx, username |-> username, at |-> t,
                  memEntry |-> IF username \in DOMAIN S.mem
                               THEN Some(S.mem[username]) ELSE Nothing]
    IN IF IsSome(hit)
       THEN [S EXCEPT !.rq.cachedResult = hit, !.rq.pc = "got",
                      !.rq.getLog = Append(@, [start |-> start, queried |-> FALSE,
                                                 doneAt |-> t, result |-> hit])]
       ELSE IF dbConfigured
       THEN [S EXCEPT !.rq.pendingGet = Some(start), !.rq.pc = "get_wait",
                      !.rq.dbop = Some([op |-> "select", handle |-> username]),
                      !.rq.dbres = Nothing]
       ELSE [S EXCEPT !.rq.cachedResult = Nothing, !.rq.pc = "got",
                      !.rq.getLog = Append(@, [start |-> start, queried |-> FALSE,
                                                 doneAt |-> t, result |-> Nothing])]

\* (variant: a fresh durable row is returned but not copied into the map)
getCachedProfileResume_noPromote(S, t) ==
    LET res == classifyDurable(The(S.rq.dbres), t)
    IN [S EXCEPT !.rq.cachedResult = res, !.rq.pc = "got",
                 !.rq.pendingGet = Nothing, !.rq.dbop = Nothing, !.rq.dbres = Nothing,
                 !.rq.getLog = Append(@, [start |-> The(S.rq.pendingGet), queried |-> TRUE,
                                            doneAt |-> t, result |-> res])]

\* (variant: the catch around the select is missing and the failure ends the tool)
getCachedProfileResume_uncaught(S, t) ==
    LET username == currentUsername(S.rq)
        res == classifyDurable(The(S.rq.dbres), t)
        promote == IsSome(res) /\ The(res).status = "fresh"
    IN IF The(S.rq.dbres).error
       THEN [S EXCEPT !.rq.pc = "done", !.rq.pendingGet = Nothing, !.rq.dbop = Nothing,
                      !.rq.dbres = Nothing,
                      !.rq.result = Some([isError |-> TRUE, kind |-> "exception"])]
       ELSE [S EXCEPT !.mem = IF promote THEN mapSet(@, username, The(res).profile) ELSE @,
                      !.rq.cachedResult = res, !.rq.pc = "got",
                      !.rq.pendingGet = Nothing, !.rq.dbop = Nothing, !.rq.dbres = Nothing,
                      !.rq.getLog = Append(@, [start |-> The(S.rq.pendingGet),
                                                 queried |-> TRUE,
                                                 doneAt |-> t, result |-> res])]

\* getCachedProfile from the answer of the select to its return
getCachedProfileResume(S, t) ==
    LET username == currentUsername(S.rq)
        res == classifyDurable(The(S.rq.dbres), t)
        promote == IsSome(res) /\ The(res).status = "fresh"
    IN [S EXCEPT !.mem = IF promote THEN mapSet(@, username, The(res).profile) ELSE @,
                 !.rq.cachedResult = res, !.rq.pc = "got",
                 !.rq.pendingGet = Nothing, !.rq.dbop = Nothing, !.rq.dbres = Nothing,
                 !.rq.getLog = Append(@, [start |-> The(S.rq.pendingGet), queried |-> TRUE,
                                            doneAt |-> t, result |-> res])]

\* texts offered as examples: map / filter / slice(0, 15) of generate_tweet
exampleText(tw) == firstTruthy(tw, <<"text", "full_text", "tweet_text">>, <<>>, <<>>)
keepExample(text) == text # <<>> /\ ~ startsWith(text, RT_PREFIX)
examplesOf(tweets) == slice0(SelectSeq(MapSeq(tweets, exampleText), keepExample), MAX_EXAMPLES)

pushExamples(rq, tweets) ==
    IF Len(examplesOf(tweets)) > 0
    THEN Append(rq.userTweets, [username |-> currentUsername(rq), examples |-> examplesOf(tweets)])
    ELSE rq.userTweets

\* the caller's branch on the result of getCachedProfile
afterGet(S, t) ==
    LET cr == S.rq.cachedResult
        fresh == IsSome(cr) /\ The(cr).status = "fresh"
    IN IF S.rq.tool = "analyze"
       THEN IF fresh
            THEN LET tweets == IF hasValidStructure(The(cr).profile)
                               THEN The(The(cr).profile.profile_data).tweets ELSE <<>>
                 IN [S EXCEPT !.rq.pc = "done",
                        !.rq.served = Append(@, [idx |-> S.rq.idx, at |-> t,
                                                  profile |-> The(cr).profile]),
                        !.rq.result = Some([isError |-> FALSE, kind |-> "cached",
                                            profile |-> The(cr).profile,
                                            tweetCount |-> Len(tweets)])]
            ELSE [S EXCEPT !.rq.pc = "fetch"]
       ELSE IF ~ IsSome(cr) \/ The(cr).status = "stale" \/ The(cr).status = "invalid"
            THEN [S EXCEPT !.rq.pc = "fetch"]
            ELSE IF hasValidStructure(The(cr).profile)
            THEN [S EXCEPT !.rq.pc = "next",
                     !.rq.served = Append(@, [idx |-> S.rq.idx, at |-> t,
                                               profile |-> The(cr).profile]),
                     !.rq.userTweets =
                         pushExamples(S.rq, The(The(cr).profile.profile_data).tweets)]
            ELSE IF "tweets" \in DOMAIN The(cr).profile
            THEN [S EXCEPT !.rq.pc = "next",
                     !.rq.served = Append(@, [idx |-> S.rq.idx, at |-> t,
                                               profile |-> The(cr).profile]),
                     !.rq.userTweets = pushExamples(S.rq, The(cr).profile.tweets)]
            ELSE [S EXCEPT !.rq.pc = "fetch"]

\* getUserTweets up to its first page request
getUserTweets(S) ==
    LET f == [allTweets |-> <<>>, cursor |-> "", hasMore |-> TRUE, broke |-> FALSE,
              requestCount |-> 0, userName |-> cleanUsername(currentUsername(S.rq))]
    IN IF loopCondition(f, S.rq.targetCount)
       THEN [S EXCEPT !.rq.fetch = Some(f), !.rq.pc = "fetch_wait", !.rq.upCalls = @ + 1]
       ELSE [S EXCEPT !.rq.fetched = slice0(f.allTweets, S.rq.targetCount),
                      !.rq.pc = "fetched",
                      !.rq.fetchLog = Append(@, [idx |-> S.rq.idx, requestCount |-> 0,
                                                  tweets |-> slice0(f.allTweets,
                                                                    S.rq.targetCount)])]

\* getUserTweets from a page response to the next page request or its return
getUserTweetsResume(S, response) ==
    LET f == loopBody(The(S.rq.fetch), response)
        page == [idx |-> S.rq.idx, userName |-> The(S.rq.fetch).userName,
                 cursor |-> The(S.rq.fetch).cursor, response |-> response]
    IN IF loopCondition(f, S.rq.targetCount)
       THEN [S EXCEPT !.rq.fetch = Some(f), !.rq.upCalls = @ + 1,
                      !.rq.pageLog = Append(@, page)]
       ELSE [S EXCEPT !.rq.fetch = Nothing, !.rq.pc = "fetched",
                      !.rq.pageLog = Append(@, page),
                      !.rq.fetched = slice0(f.allTweets, S.rq.targetCount),
                      !.rq.fetchLog = Append(@, [idx |-> S.rq.idx,
                                                  requestCount |-> f.requestCount,
                                                  tweets |-> slice0(f.allTweets,
                                                                    S.rq.targetCount)])]

\* (variant: an empty result is stored like any other)
afterFetch_storesEmpty(S) == [S EXCEPT !.rq.pc = "store"]

\* (variant: an empty result makes analyze_twitter_profile fetch once more)
afterFetch_retryOnce(S) ==
    IF Len(S.rq.fetched) = 0
    THEN IF S.rq.tool = "analyze"
         THEN IF Len(S.rq.fetchLog) < 2
              THEN [S EXCEPT !.rq.pc = "fetch"]
              ELSE [S EXCEPT !.rq.pc = "done",
                             !.rq.result = Some([isError |-> TRUE, kind |-> "unable"])]
         ELSE [S EXCEPT !.rq.pc = "next"]
    ELSE [S EXCEPT !.rq.pc = "store"]

\* (variant: a username without posts ends generate_tweet with the error)
afterFetch_stopOnEmpty(S) ==
    IF Len(S.rq.fetched) = 0
    THEN IF S.rq.tool = "analyze"
         THEN [S EXCEPT !.rq.pc = "done",
                        !.rq.result = Some([isError |-> TRUE, kind |-> "unable"])]
         ELSE [S EXCEPT !.rq.pc = "done",
                        !.rq.result = Some([isError |-> TRUE, kind |-> "no_posts"])]
    ELSE [S EXCEPT !.rq.pc = "store"]

\* the caller's branch on the posts getUserTweets returned
afterFetch(S) ==
    IF Len(S.rq.fetched) = 0
    THEN IF S.rq.tool = "analyze"
         THEN [S EXCEPT !.rq.pc = "done",
                        !.rq.result = Some([isError |-> TRUE, kind |-> "unable"])]
         ELSE [S EXCEPT !.rq.pc = "next"]
    ELSE [S EXCEPT !.rq.pc = "store"]

\* storeUserTweets up to its return or its insert
storeUserTweets(S, t, dbConfigured) ==
    LET username == currentUsername(S.rq)
        profileRecord == buildRecord(S.nid, username, S.rq.fetched, t)
    IN [S EXCEPT !.nid = @ + 1,
                 !.mem = mapSet(@, username, profileRecord),
                 !.cached = @ \cup {profileRecord.id},
                 !.rq.profileRecord = Some(profileRecord),
                 !.rq.pc = IF dbConfigured THEN "store_wait" ELSE "stored",
                 !.rq.dbop = IF dbConfigured
                             THEN Some([op |-> "insert", handle |-> username]) ELSE Nothing,
                 !.rq.dbres = Nothing,
                 !.rq.stored = IF dbConfigured THEN Nothing
                               ELSE Some(storageResult(FALSE, FALSE, profileRecord.id))]

\* (variant: the catch around the insert is missing and the failure leaves the tool)
storeUserTweetsResume_uncaught(S) ==
    IF The(S.rq.dbres).error
    THEN [S EXCEPT !.rq.pc = "done", !.rq.dbop = Nothing, !.rq.dbres = Nothing,
                   !.rq.result = Some([raised |-> TRUE])]
    ELSE [S EXCEPT !.rq.pc = "stored", !.rq.dbop = Nothing, !.rq.dbres = Nothing,
                   !.rq.stored = Some(storageResult(TRUE, FALSE, The(S.rq.profileRecord).id))]

\* storeUserTweets from the answer of the insert to its return
storeUserTweetsResume(S) ==
    [S EXCEPT !.rq.pc = "stored", !.rq.dbop = Nothing, !.rq.dbres = Nothing,
              !.rq.stored = Some(storageResult(TRUE, The(S.rq.dbres).error,
                                               The(S.rq.profileRecord).id))]

\* the caller's code after storeUserTweets has returned
afterStore(S) ==
    LET entry == [record |-> The(S.rq.profileRecord), result |-> The(S.rq.stored)]
    IN IF S.rq.tool = "analyze"
       THEN [S EXCEPT !.rq.pc = "done", !.rq.putLog = Append(@, entry),
                      !.rq.result = Some([isError |-> FALSE, kind |-> "stored",
                                          count |-> Len(S.rq.fetched)])]
       ELSE [S EXCEPT !.rq.pc = "next", !.rq.putLog = Append(@, entry),
                      !.rq.userTweets =
                          pushExamples(S.rq, MapSeq(S.rq.fetched,
                                                   LAMBDA tweet : normalizeTweetData(Some(tweet))))]

\* the end of one pass of `for (const username of usernames)`
nextUsername(S) ==
    IF S.rq.idx < Len(S.rq.usernames)
    THEN [S EXCEPT !.rq.idx = @ + 1, !.rq.pc = "get", !.rq.cachedResult = Nothing,
                   !.rq.fetched = <<>>, !.rq.profileRecord = Nothing, !.rq.stored = Nothing]
    ELSE IF Len(S.rq.userTweets) = 0
    THEN [S EXCEPT !.rq.pc = "done",
                   !.rq.result = Some([isError |-> TRUE, kind |-> "no_posts"])]
    ELSE [S EXCEPT !.rq.pc = "done",
                   !.rq.result = Some([isError |-> FALSE, kind |-> "prompt",
                                       userTweets |-> S.rq.userTweets])]

\* run the handler until it suspends or returns (the machine is bound as a
\* value, S, before the stretch is chosen)
RECURSIVE Advance(_, _, _)
Advance(S0, t, dbConfigured) ==
    CHOOSE R \in
        {CASE S.rq.pc \in RestLabels -> S
           [] S.rq.pc = "tool" -> Advance(enterTool(S), t, dbConfigured)
           [] S.rq.pc = "get" -> Advance(getCachedProfile(S, t, dbConfigured), t, dbConfigured)
           [] S.rq.pc = "got" -> Advance(afterGet(S, t), t, dbConfigured)
           [] S.rq.pc = "fetch" -> Advance(getUserTweets(S), t, dbConfigured)
           [] S.rq.pc = "fetched" -> Advance(afterFetch(S), t, dbConfigured)
           [] S.rq.pc = "store" -> Advance(storeUserTweets(S, t, dbConfigured), t, dbConfigured)
           [] S.rq.pc = "stored" -> Advance(afterStore(S), t, dbConfigured)
           [] S.rq.pc = "next" -> Advance(nextUsername(S), t, dbConfigured)
         : S \in {S0}} : TRUE

\* ---------------------------------------------------------------- actions
\* Rows the durable table may hold when the process starts: written by an
\* earlier run of this server (valid, recent or old) or by the analyzer
\* revision of it, whose profile_data is a style profile without tweets.
StartTime == 2 * CACHE_EXPIRY_HOURS * MsPerHour
RowEdge ==
    [id |-> 901, handle |-> H, created_at |-> StartTime - CACHE_EXPIRY_HOURS * MsPerHour,
     profile_data |-> Some([tweets |-> <<simplifyTweet(RawHello)>>,
                            analyzed_at |-> StartTime - CACHE_EXPIRY_HOURS * MsPerHour])]
RowOld ==
    [id |-> 902, handle |-> H, created_at |-> 0,
     profile_data |-> Some([tweets |-> <<simplifyTweet(RawNews)>>, analyzed_at |-> 0])]
RowInvalid ==
    [id |-> 903, handle |-> H, created_at |-> StartTime - MsPerMinute,
     profile_data |-> Some([metrics |-> "m", analyzed_at |-> StartTime - MsPerMinute])]
InitialTables == {{}, {RowOld}, {RowOld, RowEdge}, {RowInvalid}}

\* The clock moves by a millisecond at any moment, and by a day and a
\* millisecond while no request is in flight: no await outlasts the TTL.
TickSteps == {1, CACHE_EXPIRY_HOURS * MsPerHour + 1}

AnalyzeInputs == {<<H, FALSE>>, <<H, TRUE>>}
GenerateInputs == {<<>>, <<H>>}

Init ==
    /\ now = StartTime
    /\ ticks = 0
    /\ useDatabase \in BOOLEAN
    /\ memoryCache = <<>>
    /\ twitter_profiles \in (IF useDatabase THEN InitialTables ELSE {{}})
    /\ world \in CacheWorlds
    /\ server = NormalServer
    /\ call = NoCall
    /\ nextId = 1
    /\ NoTransport
    /\ started = 0
    /\ everCached = {}
    /\ req = [r \in Req |-> IdleRequest]

Machine(r) == [rq |-> req[r], mem |-> memoryCache, nid |-> nextId, cached |-> everCached]

Commit(r, S0) ==
    \E S \in {S0} :
        /\ req' = [req EXCEPT ![r] = S.rq]
        /\ memoryCache' = S.mem
        /\ nextId' = S.nid
        /\ everCached' = S.cached

\* the clock advances
Tick ==
    /\ ticks < MaxTicks
    /\ \E d \in TickSteps :
          /\ d = 1 \/ \A r \in Req : req[r].pc \in {"idle", "done"}
          /\ now' = now + d
    /\ ticks' = ticks + 1
    /\ UNCHANGED <<transportVars, call, server, useDatabase, memoryCache, twitter_profiles, world, nextId, started,
                   everCached, req>>

\* a caller invokes analyze_twitter_profile (the requests are interchangeable:
\* a slot is first used when the slots before it have been)
StartAnalyze(r) ==
    /\ Callable("analyze_twitter_profile")
    /\ req[r].pc \in {"idle", "done"}
    /\ \A q \in Req : q < r => req[q].pc # "idle"
    /\ started < MaxStarts
    /\ \E in \in AnalyzeInputs :
          Commit(r, Advance([Machine(r) EXCEPT
                                !.rq = [IdleRequest EXCEPT !.pc = "tool", !.tool = "analyze",
                                                           !.usernames = <<in[1]>>,
                                                           !.force = in[2]]],
                            now, useDatabase))
    /\ started' = started + 1
    /\ UNCHANGED <<transportVars, call, server, now, ticks, useDatabase, twitter_profiles, world>>

\* a caller invokes generate_tweet
StartGenerate(r) ==
    /\ Callable("generate_tweet")
    /\ req[r].pc \in {"idle", "done"}
    /\ \A q \in Req : q < r => req[q].pc # "idle"
    /\ started < MaxStarts
    /\ \E in \in GenerateInputs :
          Commit(r, Advance([Machine(r) EXCEPT
                                !.rq = [IdleRequest EXCEPT !.pc = "tool", !.tool = "generate",
                                                           !.usernames = in]],
                            now, useDatabase))
    /\ started' = started + 1
    /\ UNCHANGED <<transportVars, call, server, now, ticks, useDatabase, twitter_profiles, world>>

\* the upstream answers the page request in flight
UpstreamAnswers(r) ==
    /\ req[r].pc = "fetch_wait"
    /\ Commit(r, Advance(getUserTweetsResume(Machine(r),
                                             Upstream(world, The(req[r].fetch).cursor)),
                         now, useDatabase))
    /\ UNCHANGED <<transportVars, call, server, now, ticks, useDatabase, twitter_profiles, world, started>>

\* the page request in flight fails: makeTwitterRequest returns status error
UpstreamFails(r) ==
    /\ req[r].pc = "fetch_wait"
    /\ Commit(r, Advance(getUserTweetsResume(Machine(r), ErrorResponse), now, useDatabase))
    /\ UNCHANGED <<transportVars, call, server, now, ticks, useDatabase, twitter_profiles, world, started>>

\* the durable store executes the select in flight
DbSelect(r) ==
    /\ req[r].pc = "get_wait"
    /\ req[r].dbres = Nothing
    /\ LET rows == latestByHandle(twitter_profiles, The(req[r].dbop).handle)
       IN \/ /\ rows = {}
             /\ req' = [req EXCEPT ![r].dbres = Some([error |-> FALSE, data |-> <<>>])]
          \/ \E p \in rows :
                req' = [req EXCEPT ![r].dbres = Some([error |-> FALSE, data |-> <<p>>])]
    /\ UNCHANGED <<transportVars, call, server, now, ticks, useDatabase, memoryCache, twitter_profiles, world, nextId,
                   started, everCached>>

\* (variant: the insert replaces the rows the table holds for the handle)
DbInsert_upsert(r) ==
    /\ req[r].pc = "store_wait"
    /\ req[r].dbres = Nothing
    /\ twitter_profiles' =
          {p \in twitter_profiles : p.handle # The(req[r].profileRecord).handle}
             \cup {The(req[r].profileRecord)}
    /\ req' = [req EXCEPT ![r].dbres = Some([error |-> FALSE, data |-> <<>>])]
    /\ UNCHANGED <<transportVars, call, server, now, ticks, useDatabase, memoryCache, world, nextId, started, everCached>>

\* the durable store executes the insert in flight
DbInsert(r) ==
    /\ req[r].pc = "store_wait"
    /\ req[r].dbres = Nothing
    /\ twitter_profiles' = twitter_profiles \cup {The(req[r].profileRecord)}
    /\ req' = [req EXCEPT ![r].dbres = Some([error |-> FALSE, data |-> <<>>])]
    /\ UNCHANGED <<transportVars, call, server, now, ticks, useDatabase, memoryCache, world, nextId, started, everCached>>

\* the durable store (or the way to it) fails the operation in flight
DbFails(r) ==
    /\ req[r].pc \in {"get_wait", "store_wait"}
    /\ req[r].dbres = Nothing
    /\ req' = [req EXCEPT ![r].dbres = Some([error |-> TRUE, data |-> <<>>])]
    /\ UNCHANGED <<transportVars, call, server, now, ticks, useDatabase, memoryCache, twitter_profiles, world, nextId,
                   started, everCached>>

\* the answer of the select reaches the request, which runs on
GetResume(r) ==
    /\ req[r].pc = "get_wait"
    /\ IsSome(req[r].dbres)
    /\ Commit(r, Advance(getCachedProfileResume(Machine(r), now), now, useDatabase))
    /\ UNCHANGED <<transportVars, call, server, now, ticks, useDatabase, twitter_profiles, world, started>>

\* the answer of the insert reaches the request, which runs on
StoreResume(r) ==
    /\ req[r].pc = "store_wait"
    /\ IsSome(req[r].dbres)
    /\ Commit(r, Advance(storeUserTweetsResume(Machine(r)), now, useDatabase))
    /\ UNCHANGED <<transportVars, call, server, now, ticks, useDatabase, twitter_profiles, world, started>>

Next ==
    \/ Tick
    \/ \E r \in Req : StartAnalyze(r)
    \/ \E r \in Req : StartGenerate(r)
    \/ \E r \in Req : UpstreamAnswers(r)
    \/ \E r \in Req : UpstreamFails(r)
    \/ \E r \in Req : DbSelect(r)
    \/ \E r \in Req : DbInsert(r)
    \/ \E r \in Req : DbFails(r)
    \/ \E r \in Req : GetResume(r)
    \/ \E r \in Req : StoreResume(r)

Spec == Init /\ [][Next]_vars

TypeOK ==
    /\ \A r \in Req : req[r].pc \in RestLabels
    /\ DOMAIN memoryCache \subseteq Usernames

\* ------------------------------------------------- the start of the process
\* The module's top-level code, from the reading of the environment to the
\* await of server.connect, and the calls the process then answers.  The
\* handlers of setup_instructions and check_server_config are synchronous.
StartupInit ==
    /\ now = StartTime
    /\ ticks = 0
    /\ useDatabase = FALSE
    /\ memoryCache = <<>>
    /\ twitter_profiles = {}
    /\ world = "A"
    /\ server \in {[phase |-> "boot", apiKey |-> k, tools |-> {}] : k \in BOOLEAN}
    /\ call = NoCall
    /\ nextId = 1
    /\ NoTransport
    /\ started = 0
    /\ everCached = {}
    /\ req = [r \in Req |-> IdleRequest]

\* the module runs up to `await server.connect(transport)`: without the
\* credential only setup_instructions is registered
ModuleStartup ==
    /\ server.phase = "boot"
    /\ server' = [server EXCEPT !.phase = "connecting",
                                !.tools = IF server.apiKey THEN NormalTools
                                          ELSE LimitedTools]
    /\ UNCHANGED <<transportVars, call, now, ticks, useDatabase, memoryCache, twitter_profiles, world, nextId,
                   started, everCached, req>>

\* server.connect resolves: normal operation goes on serving, limited mode
\* runs into process.exit(1)
ConnectResolves ==
    /\ server.phase = "connecting"
    /\ server' = [server EXCEPT !.phase = IF server.apiKey THEN "serving" ELSE "exited"]
    /\ UNCHANGED <<transportVars, call, now, ticks, useDatabase, memoryCache, twitter_profiles, world, nextId,
                   started, everCached, req>>

\* a caller invokes setup_instructions
CallSetupInstructions(r) ==
    /\ Callable("setup_instructions")
    /\ req[r].pc \in {"idle", "done"}
    /\ \A q \in Req : q < r => req[q].pc # "idle"
    /\ started < MaxStarts
    /\ req' = [req EXCEPT ![r] =
                  [IdleRequest EXCEPT !.pc = "done", !.tool = "setup_instructions",
                                      !.result = Some([isError |-> FALSE, kind |-> "setup"])]]
    /\ started' = started + 1
    /\ UNCHANGED <<transportVars, call, now, ticks, useDatabase, memoryCache, twitter_profiles, world, nextId,
                   everCached, server>>

\* a caller invokes check_server_config
CallCheckServerConfig(r) ==
    /\ Callable("check_server_config")
    /\ req[r].pc \in {"idle", "done"}
    /\ \A q \in Req : q < r => req[q].pc # "idle"
    /\ started < MaxStarts
    /\ req' = [req EXCEPT ![r] =
                  [IdleRequest EXCEPT !.pc = "done", !.tool = "check_server_config",
                                      !.result = Some([isError |-> FALSE, kind |-> "config",
                                                       database |-> useDatabase,
                                                       cacheSize |->
                                                           Cardinality(DOMAIN memoryCache)])]]
    /\ started' = started + 1
    /\ UNCHANGED <<transportVars, call, now, ticks, useDatabase, memoryCache, twitter_profiles, world, nextId,
                   everCached, server>>

StartupNext ==
    \/ ModuleStartup
    \/ ConnectResolves
    \/ \E r \in Req : CallSetupInstructions(r)
    \/ \E r \in Req : CallCheckServerConfig(r)
    \/ \E r \in Req : StartAnalyze(r)
    \/ \E r \in Req : StartGenerate(r)
    \/ \E r \in Req : UpstreamAnswers(r)
    \/ \E r \in Req : UpstreamFails(r)

StartupSpec == StartupInit /\ [][StartupNext]_vars

\* ------------------------------------------- the three tools and the stores
\* All tools of normal operation at a fixed moment, with the durable store
\* and the upstream failing at will.
ToolNext ==
    \/ \E r \in Req : CallCheckServerConfig(r)
    \/ \E r \in Req : StartAnalyze(r)
    \/ \E r \in Req : StartGenerate(r)
    \/ \E r \in Req : UpstreamAnswers(r)
    \/ \E r \in Req : UpstreamFails(r)
    \/ \E r \in Req : DbSelect(r)
    \/ \E r \in Req : DbInsert(r)
    \/ \E r \in Req : DbFails(r)
    \/ \E r \in Req : GetResume(r)
    \/ \E r \in Req : StoreResume(r)

ToolSpec == Init /\ [][ToolNext]_vars

\* a step of the upstream, of the durable store, or of a continuation
Settles ==
    \E r \in Req :
        \/ UpstreamAnswers(r) \/ UpstreamFails(r)
        \/ DbSelect(r) \/ DbInsert(r) \/ DbFails(r)
        \/ GetResume(r) \/ StoreResume(r)

\* every awaited promise settles: while a page request or a durable operation
\* is in flight, one of them is answered or fails, or a continuation runs
ToolLive == ToolSpec /\ WF_vars(Settles)

\* ---------------------------------------- the tools over every timeline
\* The two tools without a durable store, against each of the timelines the
\* upstream may serve (empty accounts, reposts only, several pages, ...).
WorldInit ==
    /\ now = StartTime
    /\ ticks = 0
    /\ useDatabase = FALSE
    /\ memoryCache = <<>>
    /\ twitter_profiles = {}
    /\ world \in Worlds
    /\ server = NormalServer
    /\ call = NoCall
    /\ nextId = 1
    /\ NoTransport
    /\ started = 0
    /\ everCached = {}
    /\ req = [r \in Req |-> IdleRequest]

WorldNext ==
    \/ \E r \in Req : StartAnalyze(r)
    \/ \E r \in Req : StartGenerate(r)
    \/ \E r \in Req : UpstreamAnswers(r)
    \/ \E r \in Req : UpstreamFails(r)

WorldSpec == WorldInit /\ [][WorldNext]_vars

\* ------------------------------------------- getUserTweets on its own
\* One call getUserTweets(username, targetCount) against an upstream that may
\* answer each page request with any of the responses below.
PageTop ==
    [status |-> "success", tweets |-> <<RawHello, RawNews, RawRT>>, next_cursor |-> "c1"]
PageNested ==
    [status |-> "success",
     data |-> [tweets |-> <<RawHello, RawFlagged>>, next_cursor |-> "c2"]]
PageAllReposts ==
    [status |-> "success", data |-> [tweets |-> <<RawRT>>, next_cursor |-> "c1"]]
PageMixed ==
    [status |-> "success", data |-> [tweets |-> <<RawMore>>], next_cursor |-> "c2"]
PageNoCursor == [status |-> "success", tweets |-> <<RawMore, RawAltRT>>]
PageEmptyCursor ==
    [status |-> "success", data |-> [tweets |-> <<RawNews>>, next_cursor |-> ""]]
PageZeroTop == [status |-> "success", tweets |-> <<>>, next_cursor |-> "c1"]
PageZeroNested ==
    [status |-> "success", data |-> [tweets |-> <<>>, next_cursor |-> "c2"]]
NoTweetsResponse == [status |-> "success", msg |-> "user not found"]

Responses ==
    {PageTop, PageNested, PageAllReposts, PageMixed, PageNoCursor, PageEmptyCursor,
     PageZeroTop, PageZeroNested, NoTweetsResponse, ErrorResponse}

TargetCounts == (0..MaxTarget) \cup {TARGET_COUNT}

FetchInit ==
    /\ now = StartTime
    /\ ticks = 0
    /\ useDatabase = FALSE
    /\ memoryCache = <<>>
    /\ twitter_profiles = {}
    /\ world = "A"
    /\ server = NormalServer
    /\ call = NoCall
    /\ nextId = 1
    /\ NoTransport
    /\ started = 0
    /\ everCached = {}
    /\ req = [r \in Req |-> IdleRequest]

\* the call is made: getUserTweets runs up to its first page request
FetchStart ==
    /\ started = 0
    /\ \E username \in Usernames, targetCount \in TargetCounts :
          Commit(1, getUserTweets([Machine(1) EXCEPT
                       !.rq = [IdleRequest EXCEPT !.pc = "fetch", !.tool = "getUserTweets",
                                                  !.usernames = <<username>>, !.idx = 1,
                                                  !.targetCount = targetCount]]))
    /\ started' = 1
    /\ UNCHANGED <<transportVars, call, server, now, ticks, useDatabase, twitter_profiles, world>>

\* the page request in flight is answered: getUserTweets runs up to its next
\* page request or to its return
FetchAnswers ==
    /\ req[1].pc = "fetch_wait"
    /\ req[1].tool = "getUserTweets"
    /\ \E response \in Responses : Commit(1, getUserTweetsResume(Machine(1), response))
    /\ UNCHANGED <<transportVars, call, server, now, ticks, useDatabase, twitter_profiles, world, started>>

FetchNext == FetchStart \/ FetchAnswers

FetchSpec == FetchInit /\ [][FetchNext]_vars

\* every page request is settled: the promise of axios.get resolves or rejects
FetchLive == FetchSpec /\ WF_vars(FetchAnswers)

\* ------------------------------------------ normalizeTweetData on its own
\* Raw posts in the shapes the normalizer resolves: every selection of the
\* keys of three sample objects, and null.
Restrict(f, K) == [k \in K |-> f[k]]

TextTagged == <<"#", "a", " ", "@", "x">>
EntitiesFull ==
    [hashtags |-> <<[text |-> <<"t">>]>>,
     user_mentions |-> <<[screen_name |-> <<"m">>]>>,
     urls |-> <<[expanded_url |-> <<"u">>]>>]

SampleShapes ==
    [text |-> TextTagged, tweet_text |-> TextMore, content |-> TextNews,
     likeCount |-> 3, like_count |-> 4, favorites |-> 5, entities |-> EntitiesFull]
SampleFalsy ==
    [id |-> "", tweet_id |-> "6", text |-> <<>>, tweet_text |-> TextMore,
     likeCount |-> 0, like_count |-> 0, favorites |-> 5]
SampleMeta ==
    [id |-> "1", createdAt |-> "d1", created_at |-> "d2", isReply |-> FALSE,
     is_reply |-> TRUE, lang |-> "", language |-> "fr", retweet_count |-> 2]

RawObjects ==
    UNION {{Restrict(sample, K) : K \in SUBSET DOMAIN sample} :
              sample \in {SampleShapes, SampleFalsy, SampleMeta}}
NormalizeInputs == {Nothing} \cup {Some(tweet) : tweet \in RawObjects}

NormalizeInit ==
    /\ now = StartTime
    /\ ticks = 0
    /\ useDatabase = FALSE
    /\ memoryCache = <<>>
    /\ twitter_profiles = {}
    /\ world = "A"
    /\ server = NormalServer
    /\ call \in {[fn |-> "normalizeTweetData", arg |-> tweet, out |-> Nothing,
                   again |-> Nothing] : tweet \in NormalizeInputs}
    /\ nextId = 1
    /\ NoTransport
    /\ started = 0
    /\ everCached = {}
    /\ req = [r \in Req |-> IdleRequest]

\* normalizeTweetData(tweet) is called
Normalize ==
    /\ call.fn = "normalizeTweetData"
    /\ call.out = Nothing
    /\ call' = [call EXCEPT !.out = Some(normalizeTweetData(call.arg))]
    /\ UNCHANGED <<transportVars, now, ticks, useDatabase, memoryCache, twitter_profiles, world, nextId,
                   started, everCached, server, req>>

\* normalizeTweetData is called on the record it has returned
NormalizeAgain ==
    /\ call.fn = "normalizeTweetData"
    /\ IsSome(call.out)
    /\ call.again = Nothing
    /\ call' = [call EXCEPT !.again = Some(normalizeTweetData(call.out))]
    /\ UNCHANGED <<transportVars, now, ticks, useDatabase, memoryCache, twitter_profiles, world, nextId,
                   started, everCached, server, req>>

NormalizeNext == Normalize \/ NormalizeAgain

NormalizeSpec == NormalizeInit /\ [][NormalizeNext]_vars

\* ---------------------------------------- the tools of the analyzer revision
\* In the analyzer revision the tools fetch one page of posts, analyze it and
\* cache the resulting style profile.  The stretches below reuse the request
\* record; rq.userTweets collects the profiles a guidance is rendered from.
AnalyzerTools == NormalTools \cup {"mix_twitter_styles"}
AnalyzerServer == [phase |-> "serving", apiKey |-> TRUE, tools |-> AnalyzerTools]
AnalyzerToolNames == {"analyzer.analyze", "analyzer.generate", "analyzer.mix"}

\* getCachedProfile with no durable store configured: the map alone decides
cachedProfileOf(S, t, idx) ==
    LET username == S.rq.usernames[idx]
        hit == memoryLookup(S.mem, username, t)
    IN [hit |-> hit,
        entry |-> [start |-> [idx |-> idx, username |-> username, at |-> t,
                              memEntry |-> IF username \in DOMAIN S.mem
                                           THEN Some(S.mem[username]) ELSE Nothing],
                   queried |-> FALSE, doneAt |-> t, result |-> hit]]

\* a tool handler from its entry to its first use of a cache answer
analyzerEnter(S, t) ==
    CASE S.rq.tool = "analyzer.analyze" /\ S.rq.force ->
           [S EXCEPT !.rq.idx = 1, !.rq.pc = "a_fetch"]
      [] S.rq.tool = "analyzer.mix" ->
           LET c1 == cachedProfileOf(S, t, 1)
               c2 == cachedProfileOf(S, t, 2)
           IN [S EXCEPT !.rq.idx = 1, !.rq.pc = "a_got",
                        !.rq.cachedResults = <<c1.hit, c2.hit>>,
                        !.rq.cachedResult = c1.hit,
                        !.rq.getLog = @ \o <<c1.entry, c2.entry>>]
      [] OTHER ->
           LET c == cachedProfileOf(S, t, 1)
           IN [S EXCEPT !.rq.idx = 1, !.rq.pc = "a_got",
                        !.rq.cachedResult = c.hit,
                        !.rq.getLog = Append(@, c.entry)]

\* buildStyleGuidance: what the text shows of the profile (a field the profile
\* lacks prints as undefined, here Nothing, or as the default after ||)
buildStyleGuidance(username, profileData) ==
    [username |-> username,
     avg_length |-> IF "metrics" \in DOMAIN profileData
                    THEN Some(profileData.metrics.avg_length) ELSE Nothing,
     tone |-> IF "style_assessment" \in DOMAIN profileData
              THEN profileData.style_assessment.tone ELSE "neutral",
     formality |-> IF "style_assessment" \in DOMAIN profileData
                   THEN profileData.style_assessment.formality ELSE "casual",
     examples |-> IF "example_tweets" \in DOMAIN profileData
                  THEN slice0(profileData.example_tweets, 10) ELSE <<>>]

\* profileData.metrics || {}: the metric, or undefined (Nothing)
metricOf(profileData, name) ==
    IF "metrics" \in DOMAIN profileData /\ name \in DOMAIN profileData.metrics
    THEN Some(profileData.metrics[name]) ELSE Nothing

\* Math.round((a + b) / 2) for two optional metrics kept in units of 1/scale:
\* NaN when one is undefined, else the mean rounded half up
roundedMean(a, b, scale) ==
    IF ~ IsSome(a) \/ ~ IsSome(b) THEN [kind |-> "NaN"]
    ELSE [kind |-> "number", value |-> (The(a) + The(b) + scale) \div (2 * scale)]

\* (variant: the mean is cut off instead of rounded)
roundedMean_floor(a, b, scale) ==
    IF ~ IsSome(a) \/ ~ IsSome(b) THEN [kind |-> "NaN"]
    ELSE [kind |-> "number", value |-> (The(a) + The(b)) \div (2 * scale)]

\* Math.max(1, x)
maxWithOne(x) ==
    IF x.kind = "NaN" THEN x
    ELSE IF x.value < 1 THEN [kind |-> "number", value |-> 1] ELSE x

\* profileData.style_signature.signature_traits || []
traitsOf(profileData) ==
    IF "style_signature" \in DOMAIN profileData
       /\ "signature_traits" \in DOMAIN profileData.style_signature
    THEN profileData.style_signature.signature_traits ELSE <<>>

\* [...new Set(list)]: the first occurrences, in order
RECURSIVE uniqueOf(_, _)
uniqueOf(list, seen) ==
    IF list = <<>> THEN seen
    ELSE uniqueOf(Tail(list), IF includes(seen, Head(list)) THEN seen
                              ELSE Append(seen, Head(list)))

\* (variant: the averages are cut off and the hashtag average has no lower
\* bound)
buildMixedStyleGuidance_cutOff(username1, profile1Data, username2, profile2Data) ==
    [usernames |-> <<username1, username2>>,
     avgLength |-> roundedMean_floor(metricOf(profile1Data, "avg_length"),
                                     metricOf(profile2Data, "avg_length"), 10),
     avgHashtags |-> roundedMean_floor(metricOf(profile1Data, "hashtag_usage"),
                                       metricOf(profile2Data, "hashtag_usage"), 100),
     avgMentions |-> roundedMean_floor(metricOf(profile1Data, "mention_usage"),
                                       metricOf(profile2Data, "mention_usage"), 100),
     tones |-> (IF "style_assessment" \in DOMAIN profile1Data
                THEN <<profile1Data.style_assessment.tone>> ELSE <<>>)
               \o (IF "style_assessment" \in DOMAIN profile2Data
                   THEN <<profile2Data.style_assessment.tone>> ELSE <<>>),
     formality |-> (IF "style_assessment" \in DOMAIN profile1Data
                    THEN <<profile1Data.style_assessment.formality>> ELSE <<>>)
                   \o (IF "style_assessment" \in DOMAIN profile2Data
                       THEN <<profile2Data.style_assessment.formality>> ELSE <<>>),
     mixedTraits |-> uniqueOf(traitsOf(profile1Data) \o traitsOf(profile2Data), <<>>),
     snapshots |-> <<buildStyleGuidance(username1, profile1Data),
                     buildStyleGuidance(username2, profile2Data)>>]

\* buildMixedStyleGuidance: the averages, the joined tones and formalities,
\* the combined traits and the two snapshots
buildMixedStyleGuidance(username1, profile1Data, username2, profile2Data) ==
    [usernames |-> <<username1, username2>>,
     avgLength |-> roundedMean(metricOf(profile1Data, "avg_length"),
                               metricOf(profile2Data, "avg_length"), 10),
     avgHashtags |-> maxWithOne(roundedMean(metricOf(profile1Data, "hashtag_usage"),
                                            metricOf(profile2Data, "hashtag_usage"), 100)),
     avgMentions |-> roundedMean(metricOf(profile1Data, "mention_usage"),
                                 metricOf(profile2Data, "mention_usage"), 100),
     tones |-> (IF "style_assessment" \in DOMAIN profile1Data
                THEN <<profile1Data.style_assessment.tone>> ELSE <<>>)
               \o (IF "style_assessment" \in DOMAIN profile2Data
                   THEN <<profile2Data.style_assessment.tone>> ELSE <<>>),
     formality |-> (IF "style_assessment" \in DOMAIN profile1Data
                    THEN <<profile1Data.style_assessment.formality>> ELSE <<>>)
                   \o (IF "style_assessment" \in DOMAIN profile2Data
                       THEN <<profile2Data.style_assessment.formality>> ELSE <<>>),
     mixedTraits |-> uniqueOf(traitsOf(profile1Data) \o traitsOf(profile2Data), <<>>),
     snapshots |-> <<buildStyleGuidance(username1, profile1Data),
                     buildStyleGuidance(username2, profile2Data)>>]

\* the handler after a cache answer: serve or use the fresh profile, or fetch
analyzerAfterGet(S, t) ==
    LET cachedResult == S.rq.cachedResult
        username == currentUsername(S.rq)
    IN IF S.rq.tool = "analyzer.analyze"
       THEN IF IsSome(cachedResult) /\ The(cachedResult).status = "fresh"
            THEN [S EXCEPT !.rq.pc = "done",
                           !.rq.result =
                               Some([isError |-> FALSE, kind |-> "cached",
                                     profile_data |->
                                         The(The(cachedResult).profile.profile_data)]),
                           !.rq.served = Append(@, [idx |-> S.rq.idx,
                                                     username |-> username, at |-> t,
                                                     profile |-> The(cachedResult).profile])]
            ELSE [S EXCEPT !.rq.pc = "a_fetch"]
       ELSE IF ~ IsSome(cachedResult) \/ The(cachedResult).status = "stale"
            THEN [S EXCEPT !.rq.pc = "a_fetch"]
            ELSE [S EXCEPT !.rq.pc = "a_next",
                           !.rq.userTweets =
                               Append(@, [username |-> username,
                                          profile |->
                                              The(The(cachedResult).profile.profile_data)]),
                           !.rq.served = Append(@, [idx |-> S.rq.idx,
                                                     username |-> username, at |-> t,
                                                     profile |-> The(cachedResult).profile])]

\* getUserTweets of the analyzer revision up to its one request
analyzerGetUserTweets(S) ==
    [S EXCEPT !.rq.fetch = Some([allTweets |-> <<>>, cursor |-> "", hasMore |-> TRUE,
                                 broke |-> FALSE, requestCount |-> 1,
                                 userName |-> cleanUsername(currentUsername(S.rq))]),
              !.rq.pc = "fetch_wait", !.rq.upCalls = @ + 1]

\* what getUserTweets of the analyzer revision returns for a response
tweetsOfResponse(response, count) ==
    IF response.status = "success" /\ "data" \in DOMAIN response
       /\ "tweets" \in DOMAIN response.data
    THEN slice0(response.data.tweets, count)
    ELSE IF response.status = "success" /\ "tweets" \in DOMAIN response
            /\ Len(response.tweets) > 0
    THEN slice0(response.tweets, count)
    ELSE <<>>

\* getUserTweets of the analyzer revision from the response to its return
analyzerGetUserTweetsResume(S, response) ==
    LET tweets == tweetsOfResponse(response, 100)
    IN [S EXCEPT !.rq.fetch = Nothing, !.rq.pc = "a_fetched",
                 !.rq.fetched = tweets,
                 !.rq.pageLog = Append(@, [idx |-> S.rq.idx,
                                            userName |-> The(S.rq.fetch).userName,
                                            cursor |-> "", response |-> response]),
                 !.rq.fetchLog = Append(@, [idx |-> S.rq.idx, requestCount |-> 1,
                                             tweets |-> tweets])]

\* (variant: the posts are analyzed and the result stored before the list is
\* looked at)
analyzerAfterFetch_analyzeFirst(S, t) ==
    LET username == currentUsername(S.rq)
        analysis == analyzeTweets(Some(MapSeq(S.rq.fetched, Some)), t)
        profileRecord == [id |-> S.nid, handle |-> username,
                          profile_data |-> Some(analysis), created_at |-> t]
        T == [S EXCEPT !.mem = mapSet(S.mem, username, profileRecord),
                       !.nid = S.nid + 1,
                       !.rq.putLog = Append(@, [idx |-> S.rq.idx, at |-> t,
                                                 record |-> profileRecord,
                                                 result |-> [status |-> "success",
                                                             profile_id |-> S.nid,
                                                             storage |-> "memory"]])]
    IN IF S.rq.tool = "analyzer.analyze"
       THEN [T EXCEPT !.rq.pc = "done",
                      !.rq.result = Some([isError |-> FALSE, kind |-> "analysis",
                                          analysis |-> analysis])]
       ELSE [T EXCEPT !.rq.pc = "a_next",
                      !.rq.userTweets = Append(@, [username |-> username,
                                                    profile |-> analysis])]

\* the handler after getUserTweets: an empty list ends the call with an
\* error; otherwise analyzeTweets, then storeProfile (memory only), then the
\* analysis is returned or kept for the guidance
analyzerAfterFetch(S, t) ==
    IF Len(S.rq.fetched) = 0
    THEN [S EXCEPT !.rq.pc = "done",
                   !.rq.result = Some([isError |-> TRUE, kind |-> "unable",
                                       username |-> currentUsername(S.rq)])]
    ELSE LET username == currentUsername(S.rq)
             analysis == analyzeTweets(Some(MapSeq(S.rq.fetched, Some)), t)
             profileRecord == [id |-> S.nid, handle |-> username,
                               profile_data |-> Some(analysis), created_at |-> t]
             T == [S EXCEPT !.mem = mapSet(S.mem, username, profileRecord),
                            !.nid = S.nid + 1,
                            !.rq.putLog = Append(@, [idx |-> S.rq.idx, at |-> t,
                                                      record |-> profileRecord,
                                                      result |-> [status |-> "success",
                                                                  profile_id |-> S.nid,
                                                                  storage |-> "memory"]])]
         IN IF S.rq.tool = "analyzer.analyze"
            THEN [T EXCEPT !.rq.pc = "done",
                           !.rq.result = Some([isError |-> FALSE, kind |-> "analysis",
                                               analysis |-> analysis])]
            ELSE [T EXCEPT !.rq.pc = "a_next",
                           !.rq.userTweets = Append(@, [username |-> username,
                                                         profile |-> analysis])]

\* the handler once a profile is at hand: the next username of a mix, or the
\* guidance
analyzerNext(S) ==
    IF S.rq.idx < Len(S.rq.usernames)
    THEN [S EXCEPT !.rq.idx = @ + 1, !.rq.pc = "a_got",
                   !.rq.cachedResult = S.rq.cachedResults[S.rq.idx + 1]]
    ELSE LET p == S.rq.userTweets
         IN [S EXCEPT !.rq.pc = "done",
                      !.rq.result =
                          Some([isError |-> FALSE, kind |-> "guidance",
                                rendered |-> p,
                                guidance |->
                                    IF S.rq.tool = "analyzer.mix"
                                    THEN buildMixedStyleGuidance(
                                             p[1].username, p[1].profile,
                                             p[2].username, p[2].profile)
                                    ELSE buildStyleGuidance(p[1].username,
                                                            p[1].profile)])]

RECURSIVE AnalyzerAdvance(_, _)
AnalyzerAdvance(S0, t) ==
    CHOOSE R \in
        {CASE S.rq.pc \in RestLabels -> S
           [] S.rq.pc = "a_tool" -> AnalyzerAdvance(analyzerEnter(S, t), t)
           [] S.rq.pc = "a_got" -> AnalyzerAdvance(analyzerAfterGet(S, t), t)
           [] S.rq.pc = "a_fetch" -> AnalyzerAdvance(analyzerGetUserTweets(S), t)
           [] S.rq.pc = "a_fetched" -> AnalyzerAdvance(analyzerAfterFetch(S, t), t)
           [] S.rq.pc = "a_next" -> AnalyzerAdvance(analyzerNext(S), t)
         : S \in {S0}} : TRUE

\* the calls of the three tools: analyze (username, force_refresh), generate
\* (style_username), mix (username1, username2)
AnalyzerCalls ==
    {[tool |-> "analyzer.analyze", name |-> "analyze_twitter_profile",
      usernames |-> <<H>>, force |-> f] : f \in BOOLEAN}
    \cup {[tool |-> "analyzer.generate", name |-> "generate_tweet",
           usernames |-> <<H>>, force |-> FALSE],
          [tool |-> "analyzer.mix", name |-> "mix_twitter_styles",
           usernames |-> <<H, AtH>>, force |-> FALSE]}

\* a caller invokes one of the tools of the analyzer revision
AnalyzerStart(r) ==
    /\ req[r].pc \in {"idle", "done"}
    /\ \A q \in Req : q < r => req[q].pc # "idle"
    /\ started < MaxStarts
    /\ \E in \in AnalyzerCalls :
          /\ Callable(in.name)
          /\ Commit(r, AnalyzerAdvance(
                           [Machine(r) EXCEPT
                               !.rq = [IdleRequest EXCEPT !.pc = "a_tool",
                                                          !.tool = in.tool,
                                                          !.usernames = in.usernames,
                                                          !.force = in.force]],
                           now))
    /\ started' = started + 1
    /\ UNCHANGED <<transportVars, call, server, now, ticks, useDatabase, twitter_profiles, world>>

\* the upstream answers the request in flight
AnalyzerUpstreamAnswers(r) ==
    /\ req[r].pc = "fetch_wait"
    /\ req[r].tool \in AnalyzerToolNames
    /\ Commit(r, AnalyzerAdvance(
                     analyzerGetUserTweetsResume(Machine(r), Upstream(world, "")), now))
    /\ UNCHANGED <<transportVars, call, server, now, ticks, useDatabase, twitter_profiles, world, started>>

\* the request in flight fails: makeTwitterRequest returns status error
AnalyzerUpstreamFails(r) ==
    /\ req[r].pc = "fetch_wait"
    /\ req[r].tool \in AnalyzerToolNames
    /\ Commit(r, AnalyzerAdvance(
                     analyzerGetUserTweetsResume(Machine(r), ErrorResponse), now))
    /\ UNCHANGED <<transportVars, call, server, now, ticks, useDatabase, twitter_profiles, world, started>>

\* ----------------------------------------------- analyzeTweets on its own
\* Either the analyzer is called twice on one list of posts, at any two
\* moments, in a process that serves nothing, or the server of the analyzer
\* revision runs its tools, without a durable store.
AnalyzerWorlds == {"A", "two", "empty", "missing"}
TextAsk == <<"a", "?">>
TextBoth == <<"?", "!">>
PostSamples ==
    {Some([text |-> TextHello]), Some(RawNews), Some([text |-> TextAsk]),
     Some([text |-> TextBoth]), Some([id |-> "9"])}

PostLists == UNION {[1..n -> PostSamples] : n \in 0..MaxPosts}
AnalyzeCalls == {Nothing} \cup {Some(tweets) : tweets \in PostLists}

AnalyzeInit ==
    /\ now = StartTime
    /\ ticks = 0
    /\ useDatabase = FALSE
    /\ memoryCache = <<>>
    /\ twitter_profiles = {}
    /\ nextId = 1
    /\ NoTransport
    /\ started = 0
    /\ everCached = {}
    /\ req = [r \in Req |-> IdleRequest]
    /\ \/ /\ server = [phase |-> "boot", apiKey |-> TRUE, tools |-> {}]
          /\ world = "A"
          /\ call \in {[fn |-> "analyzeTweets", arg |-> tweets, out |-> Nothing,
                         again |-> Nothing] : tweets \in AnalyzeCalls}
       \/ /\ server = AnalyzerServer
          /\ world \in AnalyzerWorlds
          /\ call = NoCall

\* analyzeTweets(tweets) is called
Analyze ==
    /\ call.fn = "analyzeTweets"
    /\ call.out = Nothing
    /\ call' = [call EXCEPT !.out = Some(analyzeTweets(call.arg, now))]
    /\ UNCHANGED <<transportVars, now, ticks, useDatabase, memoryCache, twitter_profiles, world, nextId,
                   started, everCached, server, req>>

\* analyzeTweets is called once more, with the same list
AnalyzeAgain ==
    /\ call.fn = "analyzeTweets"
    /\ IsSome(call.out)
    /\ call.again = Nothing
    /\ call' = [call EXCEPT !.again = Some(analyzeTweets(call.arg, now))]
    /\ UNCHANGED <<transportVars, now, ticks, useDatabase, memoryCache, twitter_profiles, world, nextId,
                   started, everCached, server, req>>

AnalyzeNext ==
    \/ Analyze
    \/ AnalyzeAgain
    \/ Tick
    \/ \E r \in Req : AnalyzerStart(r)
    \/ \E r \in Req : AnalyzerUpstreamAnswers(r)
    \/ \E r \in Req : AnalyzerUpstreamFails(r)

AnalyzeSpec == AnalyzeInit /\ [][AnalyzeNext]_vars

\* ------------------------------------------ the style signature on its own
\* detectSignatureTraits is called on metrics, a writing style and themes on
\* both sides of each threshold, and inferPersonalityType on its result.
SignatureInputs ==
    {[metrics |-> [avg_length |-> a, exclamation_frequency |-> e, mention_usage |-> m],
      writingStyle |-> [emoji_usage |-> j],
      contentThemes |-> th] :
        a \in {490, 500}, e \in {20, 21}, m \in {60, 61},
        j \in {[kind |-> "number", value |-> 10], [kind |-> "number", value |-> 11],
               [kind |-> "NaN"]},
        th \in {<<>>, <<"ai">>, <<"humor">>, <<"memes">>, <<"ai", "humor", "memes">>}}

SignatureInit ==
    /\ now = StartTime
    /\ ticks = 0
    /\ useDatabase = FALSE
    /\ memoryCache = <<>>
    /\ twitter_profiles = {}
    /\ world = "A"
    /\ server = [phase |-> "boot", apiKey |-> TRUE, tools |-> {}]
    /\ call \in {[fn |-> "detectSignatureTraits", arg |-> in, traits |-> Nothing,
                   out |-> Nothing] : in \in SignatureInputs}
    /\ nextId = 1
    /\ NoTransport
    /\ started = 0
    /\ everCached = {}
    /\ req = [r \in Req |-> IdleRequest]

\* detectSignatureTraits(metrics, writingStyle, contentThemes) is called
DetectTraits ==
    /\ call.fn = "detectSignatureTraits"
    /\ call.traits = Nothing
    /\ call' = [call EXCEPT !.traits = Some(detectSignatureTraits(call.arg.metrics,
                                                                   call.arg.writingStyle,
                                                                   call.arg.contentThemes))]
    /\ UNCHANGED <<transportVars, now, ticks, useDatabase, memoryCache, twitter_profiles, world, nextId,
                   started, everCached, server, req>>

\* inferPersonalityType(signatureTraits) is called
InferPersonality ==
    /\ call.fn = "detectSignatureTraits"
    /\ IsSome(call.traits)
    /\ call.out = Nothing
    /\ call' = [call EXCEPT !.out = Some(inferPersonalityType(The(call.traits)))]
    /\ UNCHANGED <<transportVars, now, ticks, useDatabase, memoryCache, twitter_profiles, world, nextId,
                   started, everCached, server, req>>

SignatureNext == DetectTraits \/ InferPersonality

SignatureSpec == SignatureInit /\ [][SignatureNext]_vars

\* ------------------------------- extractRepresentativeTweets on its own
\* The example selection is called on every list of up to MaxList posts over
\* texts of every bucket and of the lengths at the edges of the buckets, and
\* on lists of more than ten distinct texts.  Of a normalized post the
\* selection reads the text only.
Pad(c, n) == [i \in 1..n |-> c]
TextRocket == <<"D83D", "DE80">>
TextShortEdge == Pad("s", 39)
TextPlain == Pad("m", 40)
TextLoud == Pad("m", 40) \o <<"!">>
TextMediumRocket == Pad("m", 40) \o TextRocket
TextLongEdge == Pad("l", 120)
TextLong == Pad("l", 121)
ExampleTexts ==
    {<<>>, <<"a">>, TextShortEdge, TextPlain, TextLoud, TextMediumRocket, TextLongEdge, TextLong}
ManyTexts ==
    <<TextPlain, TextLoud, TextMediumRocket, TextLong, <<"a">>, TextAsk, TextRocket,
      TextShortEdge, TextLongEdge, Pad("x", 50), Pad("y", 50), Pad("z", 50), <<>>, TextLoud>>
Rotated(s, k) == [i \in 1..Len(s) |-> s[((i + k - 1) % Len(s)) + 1]]
Reversed(s) == [i \in 1..Len(s) |-> s[Len(s) + 1 - i]]
ExampleLists ==
    UNION {[1..n -> ExampleTexts] : n \in 0..MaxList}
    \cup {Rotated(ManyTexts, k) : k \in 0..(Len(ManyTexts) - 1)}
    \cup {Reversed(Rotated(ManyTexts, k)) : k \in 0..(Len(ManyTexts) - 1)}

ExamplesInit ==
    /\ now = StartTime
    /\ ticks = 0
    /\ useDatabase = FALSE
    /\ memoryCache = <<>>
    /\ twitter_profiles = {}
    /\ world = "A"
    /\ server = [phase |-> "boot", apiKey |-> TRUE, tools |-> {}]
    /\ call \in {[fn |-> "extractRepresentativeTweets",
                   arg |-> [i \in 1..Len(texts) |-> [text |-> texts[i]]],
                   out |-> Nothing] : texts \in ExampleLists}
    /\ nextId = 1
    /\ NoTransport
    /\ started = 0
    /\ everCached = {}
    /\ req = [r \in Req |-> IdleRequest]

\* extractRepresentativeTweets(normalizedTweets) is called, count left at 10
ExtractExamples ==
    /\ call.fn = "extractRepresentativeTweets"
    /\ call.out = Nothing
    /\ call' = [call EXCEPT !.out = Some(extractRepresentativeTweets(call.arg, 10))]
    /\ UNCHANGED <<transportVars, now, ticks, useDatabase, memoryCache, twitter_profiles, world, nextId,
                   started, everCached, server, req>>

ExamplesNext == ExtractExamples

ExamplesSpec == ExamplesInit /\ [][ExamplesNext]_vars

\* ----------------------------------- buildMixedStyleGuidance on its own
\* The blend is rendered for every pair of sample profiles: metrics whose
\* means fall on and next to a half, trait lists that overlap, and a cached
\* payload that is not a style profile.
BlendTraits ==
    {<<>>, <<"minimalist">>, <<"minimalist", "emphatic">>, <<"emphatic", "humorous">>}
BlendProfiles ==
    {[metrics |-> [avg_length |-> l, hashtag_usage |-> h, mention_usage |-> m],
      style_assessment |-> [tone |-> "neutral", formality |-> "casual"],
      style_signature |-> [signature_traits |-> tr],
      example_tweets |-> <<>>] :
        l \in {1000, 1400, 1001}, h \in {0, 100, 250}, m \in {0, 50, 149}, tr \in BlendTraits}
    \cup {[tweets |-> <<>>]}

BlendInit ==
    /\ now = StartTime
    /\ ticks = 0
    /\ useDatabase = FALSE
    /\ memoryCache = <<>>
    /\ twitter_profiles = {}
    /\ world = "A"
    /\ server = [phase |-> "boot", apiKey |-> TRUE, tools |-> {}]
    /\ call \in {[fn |-> "buildMixedStyleGuidance", arg |-> <<p1, p2>>, out |-> Nothing] :
                    p1 \in BlendProfiles, p2 \in BlendProfiles}
    /\ nextId = 1
    /\ NoTransport
    /\ started = 0
    /\ everCached = {}
    /\ req = [r \in Req |-> IdleRequest]

\* buildMixedStyleGuidance(username1, profile1Data, username2, profile2Data)
\* is called
Blend ==
    /\ call.fn = "buildMixedStyleGuidance"
    /\ call.out = Nothing
    /\ call' = [call EXCEPT !.out = Some(buildMixedStyleGuidance(H, call.arg[1],
                                                                 AtH, call.arg[2]))]
    /\ UNCHANGED <<transportVars, now, ticks, useDatabase, memoryCache, twitter_profiles, world, nextId,
                   started, everCached, server, req>>

BlendNext == Blend

BlendSpec == BlendInit /\ [][BlendNext]_vars

\* ------------------------------------- generate_tweet over several usernames
\* One call of generate_tweet with a list of up to MaxNames usernames; every
\* page request is answered with one of a few timelines or fails, so each
\* username of the list can end differently.
G == <<"g">>
ListNames == {H, AtH, G}
RECURSIVE ListsOf(_, _)
ListsOf(names, n) ==
    IF n = 0 THEN {<<>>}
    ELSE ListsOf(names, n - 1)
         \cup {Append(l, x) : l \in {k \in ListsOf(names, n - 1) : Len(k) = n - 1},
                              x \in names}
UsernameLists == ListsOf(ListNames, MaxNames)

PageLong ==
    [status |-> "success", tweets |-> [i \in 1..Len(ManyIds) |-> RawMany(i)]]
PageBlank == [status |-> "success", tweets |-> <<RawBlank>>]
PageAltOnly == [status |-> "success", tweets |-> <<RawAltRT>>]
ListResponses ==
    {Upstream("A", ""), Upstream("altRT", ""), PageLong, PageBlank, PageAltOnly, PageZeroTop}

ListInit ==
    /\ now = StartTime
    /\ ticks = 0
    /\ useDatabase = FALSE
    /\ memoryCache = <<>>
    /\ twitter_profiles = {}
    /\ world = "A"
    /\ server = NormalServer
    /\ call = NoCall
    /\ nextId = 1
    /\ NoTransport
    /\ started = 0
    /\ everCached = {}
    /\ req = [r \in Req |-> IdleRequest]

\* a caller invokes generate_tweet with a list of usernames
ListStart ==
    /\ Callable("generate_tweet")
    /\ req[1].pc = "idle"
    /\ \E in \in UsernameLists :
          Commit(1, Advance([Machine(1) EXCEPT
                                !.rq = [IdleRequest EXCEPT !.pc = "tool", !.tool = "generate",
                                                           !.usernames = in]],
                            now, useDatabase))
    /\ started' = started + 1
    /\ UNCHANGED <<transportVars, call, server, now, ticks, useDatabase, twitter_profiles, world>>

\* the upstream answers the page request in flight with some timeline
ListUpstreamAnswers(r) ==
    /\ req[r].pc = "fetch_wait"
    /\ \E response \in ListResponses :
          Commit(r, Advance(getUserTweetsResume(Machine(r), response), now, useDatabase))
    /\ UNCHANGED <<transportVars, call, server, now, ticks, useDatabase, twitter_profiles, world, started>>

ListNext ==
    \/ ListStart
    \/ \E r \in Req : ListUpstreamAnswers(r)
    \/ \E r \in Req : UpstreamFails(r)

ListSpec == ListInit /\ [][ListNext]_vars

\* ------------------------------------- one account under two spellings
\* analyze_twitter_profile is called for the account h, spelled "h" or "@h",
\* one call or two at a time; no durable store, the clock stands still.
KeyInit ==
    /\ now = StartTime
    /\ ticks = 0
    /\ useDatabase = FALSE
    /\ memoryCache = <<>>
    /\ twitter_profiles = {}
    /\ world = "A"
    /\ server = NormalServer
    /\ call = NoCall
    /\ nextId = 1
    /\ NoTransport
    /\ started = 0
    /\ everCached = {}
    /\ req = [r \in Req |-> IdleRequest]

\* a caller invokes analyze_twitter_profile with one of the spellings
KeyStart(r) ==
    /\ Callable("analyze_twitter_profile")
    /\ req[r].pc \in {"idle", "done"}
    /\ \A q \in Req : q < r => req[q].pc # "idle"
    /\ started < MaxStarts + 1
    /\ \E username \in Usernames :
          Commit(r, Advance([Machine(r) EXCEPT
                                !.rq = [IdleRequest EXCEPT !.pc = "tool", !.tool = "analyze",
                                                           !.usernames = <<username>>]],
                            now, useDatabase))
    /\ started' = started + 1
    /\ UNCHANGED <<transportVars, call, server, now, ticks, useDatabase, twitter_profiles, world>>

KeyNext ==
    \/ \E r \in Req : KeyStart(r)
    \/ \E r \in Req : UpstreamAnswers(r)
    \/ \E r \in Req : UpstreamFails(r)

KeySpec == KeyInit /\ [][KeyNext]_vars

\* ------------------------------------------- the transport layer (SSE)
\* api/index.js holds two revisions of the transport layer: "handler", the
\* exported request handler with handleSSE and handleMessages, and
\* "express", the routes app.get("/sse") and app.post("/api/messages").
\* The registry is a plain object: reading a key it does not own falls
\* through to Object.prototype.
SessionNames == <<"s1", "s2", "s3", "s4">>
InheritedKeys == {"constructor"}
\* req.query.sessionId: missing, empty, a session id, or another string
Queries ==
    {Nothing, Some(""), Some("zz")}
    \cup {Some(SessionNames[i]) : i \in 1..MaxSessions}
    \cup {Some(k) : k \in InheritedKeys}

\* transports[key]
lookup(registry, key) ==
    IF key \in DOMAIN registry THEN Some(registry[key])
    ELSE IF key \in InheritedKeys THEN Some([inherited |-> key])
    ELSE Nothing

\* delete transports[key]
deleteKey(registry, key) == [k \in DOMAIN registry \ {key} |-> registry[k]]

\* transport.handlePostMessage is a function
isTransport(value) == "sessionId" \in DOMAIN value

SseInit ==
    /\ now = StartTime
    /\ ticks = 0
    /\ useDatabase = FALSE
    /\ memoryCache = <<>>
    /\ twitter_profiles = {}
    /\ world = "A"
    /\ server = NormalServer
    /\ call = NoCall
    /\ nextId = 1
    /\ started = 0
    /\ everCached = {}
    /\ req = [r \in Req |-> IdleRequest]
    /\ revision \in {"handler", "express"}
    /\ transports = <<>>
    /\ sessions = <<>>
    /\ messages = <<>>

\* GET /sse: a transport with a new session id is created and registered,
\* and the close listener is installed
handleSSE ==
    /\ Len(sessions) < MaxSessions
    /\ LET sessionId == SessionNames[Len(sessions) + 1]
       IN /\ transports' = mapSet(transports, sessionId, [sessionId |-> sessionId])
          /\ sessions' = Append(sessions, [sessionId |-> sessionId, state |-> "open"])
    /\ UNCHANGED <<now, ticks, useDatabase, memoryCache, twitter_profiles, world, nextId,
                   started, everCached, server, call, req, revision, messages>>

\* the close event of the response of an SSE connection
onClose(i) ==
    /\ i \in 1..Len(sessions)
    /\ sessions[i].state = "open"
    /\ transports' = deleteKey(transports, sessions[i].sessionId)
    /\ sessions' = [sessions EXCEPT ![i].state = "closed"]
    /\ UNCHANGED <<now, ticks, useDatabase, memoryCache, twitter_profiles, world, nextId,
                   started, everCached, server, call, req, revision, messages>>

\* the call transport.handlePostMessage(req, res) on the value the registry
\* returned: a transport takes the message; on anything else the call raises
\* a TypeError, which handleMessages answers with 500 and which leaves the
\* express route without an answer of its own (none, or 500 from the
\* framework's error handling)
handOver(post, uncaught) ==
    IF isTransport(The(post.transport))
    THEN [post EXCEPT !.pc = "done", !.handedTo = Some(The(post.transport).sessionId),
                      !.registeredAtHandOver =
                          Some(The(post.transport).sessionId \in DOMAIN transports),
                      !.status = "transport"]
    ELSE [post EXCEPT !.pc = "done", !.registeredAtHandOver = Some(FALSE),
                      !.status = IF revision = "handler" THEN "500" ELSE uncaught]

NewPost(sessionId) ==
    [sessionId |-> sessionId, pc |-> "start", transport |-> Nothing, status |-> "none",
     handedTo |-> Nothing,
     registeredAtArrival |-> IsSome(sessionId) /\ The(sessionId) \in DOMAIN transports,
     registeredAtHandOver |-> Nothing]

\* POST /api/messages: handleMessages up to the reading of the body, or the
\* express route as a whole (the body is parsed before the route runs)
handleMessages ==
    /\ Len(messages) < MaxMessages
    /\ \E sessionId \in Queries : \E bodyOk \in BOOLEAN : \E uncaught \in {"none", "500"} :
          LET post == NewPost(sessionId)
              found == IF IsSome(sessionId) THEN lookup(transports, The(sessionId))
                       ELSE Nothing
          IN messages' = Append(messages,
                 IF revision = "handler"
                 THEN IF ~ IsSome(sessionId) \/ The(sessionId) = ""
                      THEN [post EXCEPT !.pc = "done", !.status = "400"]
                      ELSE IF ~ IsSome(found)
                      THEN [post EXCEPT !.pc = "done", !.status = "400"]
                      ELSE [post EXCEPT !.pc = "reading", !.transport = found]
                 ELSE IF ~ bodyOk
                      THEN [post EXCEPT !.pc = "done", !.status = "400"]
                      ELSE IF IsSome(found)
                      THEN handOver([post EXCEPT !.transport = found], uncaught)
                      ELSE [post EXCEPT !.pc = "done", !.status = "400"])
    /\ UNCHANGED <<now, ticks, useDatabase, memoryCache, twitter_profiles, world, nextId,
                   started, everCached, server, call, req, revision, transports, sessions>>

\* handleMessages from the end of the body to its return
handleMessagesResume(i) ==
    /\ i \in 1..Len(messages)
    /\ messages[i].pc = "reading"
    /\ \E bodyOk \in BOOLEAN :
          messages' = [messages EXCEPT ![i] =
                       IF ~ bodyOk THEN [@ EXCEPT !.pc = "done", !.status = "400"]
                       ELSE handOver(@, "500")]
    /\ UNCHANGED <<now, ticks, useDatabase, memoryCache, twitter_profiles, world, nextId,
                   started, everCached, server, call, req, revision, transports, sessions>>

SseNext ==
    \/ handleSSE
    \/ \E i \in 1..MaxSessions : onClose(i)
    \/ handleMessages
    \/ \E i \in 1..MaxMessages : handleMessagesResume(i)

SseSpec == SseInit /\ [][SseNext]_vars

\* ------------------------------------------------------------- properties
\* The TTL in milliseconds, written out independently of the model.
TtlMs == 24 * 60 * 60 * 1000

\* the completed calls of getCachedProfile, as <<request, position>>
Gets == {x \in Req \X (1..4) : x[2] <= Len(req[x[1]].getLog)}
GetAt(x) == req[x[1]].getLog[x[2]]
Puts == {x \in Req \X (1..4) : x[2] <= Len(req[x[1]].putLog)}
PutAt(x) == req[x[1]].putLog[x[2]]
Served == {x \in Req \X (1..4) : x[2] <= Len(req[x[1]].served)}
ServedAt(x) == req[x[1]].served[x[2]]

\* the payload has profile_data with a tweets list in it
StructOk(profile) ==
    /\ IsSome(profile.profile_data)
    /\ "tweets" \in DOMAIN The(profile.profile_data)

\* the map held an entry for the handle, still within the TTL, when the get began
MemHit(g) ==
    /\ IsSome(g.start.memEntry)
    /\ g.start.at - The(g.start.memEntry).created_at <= TtlMs

\* the request has fetched, or is fetching, upstream for its idx-th username
FetchesFor(r, idx) ==
    \/ req[r].pc = "fetch_wait" /\ req[r].idx = idx /\ req[r].upCalls >= 1
    \/ \E i \in 1..Len(req[r].fetchLog) :
          req[r].fetchLog[i].idx = idx /\ req[r].fetchLog[i].requestCount >= 1

\* C1: a request for a handle with force_refresh=false that arrives while the
\* map holds, within the TTL, the record an earlier request fetched and stored
\* returns that stored record and makes no upstream page request.
C1_StoredThenServed ==
    \A r \in Req :
        (/\ req[r].tool = "analyze" /\ ~ req[r].force
         /\ Len(req[r].getLog) >= 1
         /\ MemHit(req[r].getLog[1])
         /\ The(req[r].getLog[1].start.memEntry).id \in everCached)
        => /\ req[r].pc = "done"
           /\ req[r].upCalls = 0
           /\ IsSome(req[r].result)
           /\ The(req[r].result).kind = "cached"
           /\ ~ The(req[r].result).isError
           /\ The(req[r].result).profile = The(req[r].getLog[1].start.memEntry)

\* the re-request came at once: no time had passed since the record was stored
C1_Witness ==
    \E r \in Req :
        /\ req[r].tool = "analyze" /\ ~ req[r].force /\ req[r].pc = "done"
        /\ Len(req[r].getLog) = 1
        /\ IsSome(req[r].getLog[1].start.memEntry)
        /\ The(req[r].getLog[1].start.memEntry).id \in everCached
        /\ The(req[r].getLog[1].start.memEntry).created_at = req[r].getLog[1].start.at
        /\ Len(The(The(req[r].getLog[1].start.memEntry).profile_data).tweets) = 2
        /\ The(req[r].result).kind = "cached"
        /\ The(req[r].result).tweetCount = 2
        /\ req[r].upCalls = 0

\* C2: whenever the map holds an entry for the handle whose age is within the
\* TTL, get returns exactly that entry as fresh and does not query the durable
\* store; a select is in flight only for a handle the map missed or had expired.
C2_MemoryFirst ==
    /\ \A x \in Gets :
          MemHit(GetAt(x))
          => /\ GetAt(x).result = Some([status |-> "fresh",
                                         profile |-> The(GetAt(x).start.memEntry)])
             /\ ~ GetAt(x).queried
    /\ \A r \in Req :
          req[r].pc = "get_wait"
          => /\ IsSome(req[r].pendingGet)
             /\ ~ MemHit([start |-> The(req[r].pendingGet)])

\* a hit in the map although the durable table holds a row for the handle
C2_Witness ==
    /\ useDatabase
    /\ \E x \in Gets :
          /\ MemHit(GetAt(x))
          /\ ~ GetAt(x).queried
          /\ \E p \in twitter_profiles :
                p.handle = GetAt(x).start.username /\ p # The(GetAt(x).start.memEntry)

C5_SelectStep(r) ==
    (/\ req[r].pc = "get_wait"
     /\ req[r].dbres = Nothing
     /\ IsSome(req'[r].dbres)
     /\ ~ The(req'[r].dbres).error)
    => LET u == The(req[r].pendingGet).username
           rows == {p \in twitter_profiles : p.handle = u}
           data == The(req'[r].dbres).data
       IN IF rows = {} THEN data = <<>>
          ELSE /\ Len(data) = 1
               /\ data[1] \in rows
               /\ \A q \in rows : q.created_at <= data[1].created_at

\* C5, the step in which get resumes with the answer: a valid row within the
\* TTL is returned fresh and is then the handle's map entry; a stale row is
\* returned stale and the map is left as it was
C5_ResumeStep(r) ==
    (/\ req[r].pc = "get_wait"
     /\ IsSome(req[r].dbres)
     /\ Len(req'[r].getLog) = Len(req[r].getLog) + 1)
    => LET reply == The(req[r].dbres)
           u == The(req[r].pendingGet).username
           g == req'[r].getLog[Len(req[r].getLog) + 1]
       IN IF ~ reply.error /\ reply.data # <<>> /\ StructOk(reply.data[1])
          THEN IF now - reply.data[1].created_at <= TtlMs
               THEN /\ g.result = Some([status |-> "fresh", profile |-> reply.data[1]])
                    /\ u \in DOMAIN memoryCache'
                    /\ memoryCache'[u] = reply.data[1]
                    /\ \A k \in DOMAIN memoryCache \ {u} :
                          k \in DOMAIN memoryCache' /\ memoryCache'[k] = memoryCache[k]
               ELSE /\ g.result = Some([status |-> "stale", profile |-> reply.data[1]])
                    /\ memoryCache' = memoryCache
          ELSE memoryCache' = memoryCache

\* C5: when the map has no entry for the handle or its entry is expired, get
\* queries the durable store (when one is configured) for the most recent row
\* of the handle; a valid row within the TTL is returned fresh and promoted
\* into the map; a stale row is returned stale and not written into the map.
C5_DurableLookup ==
    /\ [](\A x \in Gets : (useDatabase /\ ~ MemHit(GetAt(x))) => GetAt(x).queried)
    /\ [][\A r \in Req : C5_SelectStep(r) /\ C5_ResumeStep(r)]_vars

\* the map missed, the table held two rows of the handle, the newer one was
\* returned fresh and is now the map entry
C5_Witness ==
    \E x \in Gets :
        /\ GetAt(x).start.memEntry = Nothing
        /\ GetAt(x).queried
        /\ IsSome(GetAt(x).result)
        /\ The(GetAt(x).result).status = "fresh"
        /\ GetAt(x).start.username \in DOMAIN memoryCache
        /\ memoryCache[GetAt(x).start.username] = The(GetAt(x).result).profile
        /\ \E q \in twitter_profiles :
              /\ q.handle = GetAt(x).start.username
              /\ q.created_at < The(GetAt(x).result).profile.created_at

\* C6: a durable row that fails the structural check is reported invalid, is
\* never promoted into the map, and is treated as a miss by every caller: the
\* tool fetches upstream and serves nothing from the invalid row.
C6_InvalidIsMiss ==
    /\ \A x \in Gets :
          (IsSome(GetAt(x).result) /\ ~ StructOk(The(GetAt(x).result).profile))
          => /\ The(GetAt(x).result).status = "invalid"
             /\ FetchesFor(x[1], GetAt(x).start.idx)
    /\ \A k \in DOMAIN memoryCache : StructOk(memoryCache[k])
    /\ \A x \in Served : StructOk(ServedAt(x).profile)

\* an invalid row was found, the tool fetched and stored a new record, and the
\* invalid row is not what the map holds
C6_Witness ==
    \E x \in Gets :
        /\ IsSome(GetAt(x).result)
        /\ The(GetAt(x).result).status = "invalid"
        /\ The(GetAt(x).result).profile \in twitter_profiles
        /\ req[x[1]].pc = "done"
        /\ ~ The(req[x[1]].result).isError
        /\ Len(req[x[1]].putLog) = 1
        /\ req[x[1]].served = <<>>
        /\ memoryCache[GetAt(x).start.username] = req[x[1]].putLog[1].record

\* no call of storeUserTweets has begun since the one that wrote this record
LatestPut(x) == PutAt(x).record.id = nextId - 1

\* C7 as stated: put writes the map before it attempts the durable write, a
\* failed durable write makes it return (partial, memory) without raising, and
\* from then on, while the written record is within the TTL and no later put
\* has replaced it, the map holds that record for the handle, so that every get
\* returns it as fresh from the map.
C7_PartialStillServed ==
    /\ \A r \in Req :
          req[r].pc = "store_wait"
          => /\ IsSome(req[r].profileRecord)
             /\ The(req[r].profileRecord).id \in everCached
    /\ \A x \in Puts :
          LET p == PutAt(x) IN
          /\ (useDatabase /\ p.record \notin twitter_profiles)
             => (p.result.status = "partial" /\ p.result.storage = "memory")
          /\ (p.result.status = "partial" /\ LatestPut(x)
              /\ now - p.record.created_at <= TtlMs)
             => /\ p.record.handle \in DOMAIN memoryCache
                /\ memoryCache[p.record.handle] = p.record

\* C8: the result of put is one of three pairs: (success, database) exactly
\* when a durable store is configured and the insert succeeded, (partial,
\* memory) exactly when one is configured and the insert failed, (success,
\* memory) exactly when none is configured; no other status is returned.
C8_ThreeResults ==
    \A x \in Puts :
        LET p == PutAt(x)
            pair == <<p.result.status, p.result.storage>>
            inserted == p.record \in twitter_profiles
        IN /\ pair \in {<<"success", "database">>, <<"partial", "memory">>,
                        <<"success", "memory">>}
           /\ pair = <<"success", "database">> <=> (useDatabase /\ inserted)
           /\ pair = <<"partial", "memory">> <=> (useDatabase /\ ~ inserted)
           /\ pair = <<"success", "memory">> <=> ~ useDatabase
           /\ p.result.status # "error"
           /\ p.result.profile_id = p.record.id

\* with a durable store configured, one put ended (success, database) and
\* another, whose insert failed, ended (partial, memory)
C8_Witness ==
    \E x \in Puts, y \in Puts :
        /\ PutAt(x).result.status = "success" /\ PutAt(x).result.storage = "database"
        /\ PutAt(x).record \in twitter_profiles
        /\ PutAt(y).result.status = "partial" /\ PutAt(y).result.storage = "memory"
        /\ PutAt(y).record \notin twitter_profiles

\* C9, the states of a request analyze(username, force_refresh = true): it has
\* made no call of getCachedProfile, waits for no select, has been served
\* nothing from the cache, and has issued an upstream page request
C9_NoCacheRead(r) ==
    (req[r].tool = "analyze" /\ req[r].force)
    => /\ req[r].getLog = <<>>
       /\ req[r].pendingGet = Nothing
       /\ req[r].cachedResult = Nothing
       /\ req[r].pc # "get_wait"
       /\ req[r].served = <<>>
       /\ req[r].upCalls >= 1
       /\ IsSome(req[r].result) => The(req[r].result).kind # "cached"

\* C9, the step in which the fetch of such a request returns: on a non-empty
\* result the handle's map entry becomes a record created in this step (a new
\* id, created_at = now, the fetched posts); on an empty one the map is left
C9_ReplaceStep(r) ==
    (/\ req[r].tool = "analyze" /\ req[r].force
     /\ req[r].pc = "fetch_wait"
     /\ Len(req'[r].fetchLog) = Len(req[r].fetchLog) + 1)
    => LET u == currentUsername(req[r])
           tweets == req'[r].fetchLog[Len(req[r].fetchLog) + 1].tweets
       IN IF Len(tweets) > 0
          THEN /\ u \in DOMAIN memoryCache'
               /\ memoryCache'[u].id = nextId
               /\ memoryCache'[u].id \notin everCached
               /\ \A p \in twitter_profiles : p.id # memoryCache'[u].id
               /\ memoryCache'[u].created_at = now
               /\ memoryCache'[u].handle = u
               /\ Len(The(memoryCache'[u].profile_data).tweets) = Len(tweets)
               /\ nextId' = nextId + 1
          ELSE memoryCache' = memoryCache

\* C9: analyze with force_refresh = true never consults the cache, always
\* issues an upstream fetch whatever the cache holds, and on a non-empty fetch
\* result replaces the handle's map entry with a newly created record.
C9_ForceRefresh ==
    /\ [](\A r \in Req : C9_NoCacheRead(r))
    /\ [][\A r \in Req : C9_ReplaceStep(r)]_vars

\* both tiers held a record of the handle within the TTL (the map the record
\* another request had stored, the table a row exactly 24 h old), and the
\* forced request still fetched and put its own record in the map
C9_Witness ==
    \E r \in Req, x \in Puts :
        /\ req[r].tool = "analyze" /\ req[r].force /\ req[r].pc = "done"
        /\ The(req[r].result).kind = "stored"
        /\ req[r].upCalls >= 1
        /\ Len(req[r].putLog) = 1
        /\ x[1] # r
        /\ PutAt(x).record.handle = req[r].putLog[1].record.handle
        /\ PutAt(x).record.id < req[r].putLog[1].record.id
        /\ req[r].putLog[1].record.created_at - PutAt(x).record.created_at <= TtlMs
        /\ RowEdge \in twitter_profiles
        /\ req[r].putLog[1].record.created_at - RowEdge.created_at <= TtlMs
        /\ memoryCache[req[r].putLog[1].record.handle] = req[r].putLog[1].record

\* C10: once two requests that both fetched and wrote for the same handle have
\* finished, the map holds for the handle one whole record, the one written
\* last of the two; the table holds every record whose insert succeeded, and
\* a lookup by handle answers with the greatest created_at.
C10_LastWriteWins ==
    \A x \in Puts, y \in Puts :
        LET p == PutAt(x)
            q == PutAt(y)
            u == p.record.handle
        IN (/\ x[1] # y[1]
            /\ req[x[1]].pc = "done" /\ req[y[1]].pc = "done"
            /\ q.record.handle = u
            /\ p.record.id < q.record.id)
           => /\ u \in DOMAIN memoryCache
              /\ memoryCache[u] \in {p.record, q.record}
              /\ memoryCache[u] = q.record
              /\ p.result.storage = "database" => p.record \in twitter_profiles
              /\ q.result.storage = "database" => q.record \in twitter_profiles
              /\ (p.result.storage = "database" /\ q.result.storage = "database")
                 => /\ latestByHandle(twitter_profiles, u) # {}
                    /\ \A w \in latestByHandle(twitter_profiles, u) :
                          /\ w.created_at >= p.record.created_at
                          /\ w.created_at >= q.record.created_at
                          /\ \A v \in twitter_profiles :
                                v.handle = u => v.created_at <= w.created_at

\* the two requests overlapped: each looked the handle up while the map had no
\* entry for it, so neither had written when the other began; both fetched,
\* both inserted, and the map holds the record written second
C10_Witness ==
    \E x \in Puts, y \in Puts :
        /\ x[1] # y[1]
        /\ req[x[1]].pc = "done" /\ req[y[1]].pc = "done"
        /\ Len(req[x[1]].getLog) = 1 /\ req[x[1]].getLog[1].start.memEntry = Nothing
        /\ Len(req[y[1]].getLog) = 1 /\ req[y[1]].getLog[1].start.memEntry = Nothing
        /\ req[x[1]].upCalls >= 1 /\ req[y[1]].upCalls >= 1
        /\ PutAt(x).record.handle = PutAt(y).record.handle
        /\ PutAt(x).record.id < PutAt(y).record.id
        /\ PutAt(x).record \in twitter_profiles
        /\ PutAt(y).record \in twitter_profiles
        /\ memoryCache[PutAt(y).record.handle] = PutAt(y).record

\* C11, the map in one step: no key is removed, and a key that is new or whose
\* value has changed holds one whole record for that key, either the record
\* storeUserTweets has built in this step or a row of the durable table
C11_MapStep ==
    /\ DOMAIN memoryCache \subseteq DOMAIN memoryCache'
    /\ \A k \in DOMAIN memoryCache' :
          (k \notin DOMAIN memoryCache \/ memoryCache'[k] # memoryCache[k])
          => LET v == memoryCache'[k] IN
             /\ DOMAIN v = {"id", "handle", "profile_data", "created_at"}
             /\ v.handle = k
             /\ \/ v \in twitter_profiles
                \/ /\ v.id = nextId /\ nextId' = nextId + 1
                   /\ v.created_at = now
                   /\ \E r \in Req : req'[r].profileRecord = Some(v)

\* C11, the table in one step: no row is removed or changed, and at most one
\* row is added, a record built by storeUserTweets whose id no row has
C11_TableStep ==
    /\ twitter_profiles \subseteq twitter_profiles'
    /\ Cardinality(twitter_profiles' \ twitter_profiles) <= 1
    /\ \A p \in twitter_profiles' \ twitter_profiles :
          /\ p.id \in everCached
          /\ \A q \in twitter_profiles : q.id # p.id

\* C11: no operation deletes or partially updates a cache entry in either
\* tier: the map holds one record per key, changes only by whole-record
\* replacement and never loses a key; the table only receives inserts of new
\* records with a new id, never updates or deletes.
C11_NoDeleteNoUpdate ==
    /\ [](\A p, q \in twitter_profiles : p.id = q.id => p = q)
    /\ [][C11_MapStep /\ C11_TableStep]_vars

\* the table has received two inserts for a handle it already held rows of,
\* all four rows are there, and the map holds one record for the handle
C11_Witness ==
    /\ {RowOld, RowEdge} \subseteq twitter_profiles
    /\ Cardinality({p \in twitter_profiles : p.handle = H}) = 4
    /\ \E p \in twitter_profiles : p.id = 1
    /\ \E p \in twitter_profiles : p.id = 2
    /\ DOMAIN memoryCache = {H}
    /\ memoryCache[H].id \in {1, 2, 901}

\* ------------------------------------------- properties of getUserTweets
\* What a page response carries, read off the response independently of the
\* loop: its records (in either shape), whether it has any, its next cursor.
PageOk(response) ==
    /\ response.status = "success"
    /\ \/ "data" \in DOMAIN response /\ "tweets" \in DOMAIN response.data
       \/ "tweets" \in DOMAIN response

PageRecords(response) ==
    IF ~ PageOk(response) THEN <<>>
    ELSE IF "data" \in DOMAIN response /\ "tweets" \in DOMAIN response.data
    THEN response.data.tweets
    ELSE response.tweets

NextCursor(response) ==
    IF "data" \in DOMAIN response /\ "next_cursor" \in DOMAIN response.data
       /\ response.data.next_cursor # ""
    THEN response.data.next_cursor
    ELSE IF "next_cursor" \in DOMAIN response THEN response.next_cursor ELSE ""

\* a raw record is a repost by its text field or by one of its repost flags
IsRepost(tweet) ==
    \/ "text" \in DOMAIN tweet /\ Len(tweet.text) >= 4
       /\ tweet.text[1] = "R" /\ tweet.text[2] = "T" /\ tweet.text[3] = " "
       /\ tweet.text[4] = "@"
    \/ "isRetweet" \in DOMAIN tweet /\ tweet.isRetweet = TRUE
    \/ "retweeted" \in DOMAIN tweet /\ tweet.retweeted = TRUE

NotRepost(tweet) == ~ IsRepost(tweet)

\* the pages a request received for its idx-th username
PagesFor(rq, idx) == SelectSeq(rq.pageLog, LAMBDA pg : pg.idx = idx)

\* the non-repost records of the first k pages, in upstream order
RECURSIVE Accumulated(_, _)
Accumulated(pages, k) ==
    IF k = 0 THEN <<>>
    ELSE Accumulated(pages, k - 1) \o SelectSeq(PageRecords(pages[k].response), NotRepost)

FirstN(s, n) == [i \in 1..(IF Len(s) < n THEN Len(s) ELSE n) |-> s[i]]

\* the response keeps the pagination open: a non-empty page, a non-empty cursor
KeepsOpen(response) ==
    PageOk(response) /\ Len(PageRecords(response)) > 0 /\ NextCursor(response) # ""

\* C12: every call of getUserTweets terminates, and it issues at most 5 page
\* requests whatever the upstream returns.
C12_AtMostFiveAndTerminates ==
    /\ [](\A r \in Req : req[r].upCalls <= 5 /\ Len(req[r].pageLog) <= 5)
    /\ \A r \in Req : (req[r].pc = "fetch_wait") ~> (req[r].pc = "fetched")

\* the call has returned after 5 requests that each kept the pagination open
C12_Witness ==
    /\ req[1].pc = "fetched"
    /\ req[1].upCalls = 5
    /\ Len(req[1].pageLog) = 5
    /\ \A k \in 1..5 : KeepsOpen(req[1].pageLog[k].response)

\* C13 as stated: against an upstream that answers every request with a
\* successful non-empty page and a non-empty next cursor, the call stops after
\* exactly 5 requests.
C13_ExactlyFive ==
    (/\ req[1].pc = "fetched"
     /\ Len(req[1].pageLog) >= 1
     /\ \A k \in 1..Len(req[1].pageLog) : KeepsOpen(req[1].pageLog[k].response))
    => req[1].upCalls = 5

\* C13 (amended): against such an upstream the call stops after exactly 5
\* requests when the first four pages hold fewer than targetCount non-repost
\* records in total; otherwise it stops earlier, after the first page with
\* which the accumulated non-repost records reach targetCount.
C13_FiveUnlessEnough ==
    (/\ req[1].pc = "fetched"
     /\ Len(req[1].pageLog) >= 1
     /\ \A k \in 1..Len(req[1].pageLog) : KeepsOpen(req[1].pageLog[k].response))
    => LET n == req[1].upCalls
           pages == req[1].pageLog
       IN /\ n = Len(pages)
          /\ n <= 5
          /\ n = 5 \/ Len(Accumulated(pages, n)) >= req[1].targetCount
          /\ \A j \in 1..(n - 1) : Len(Accumulated(pages, j)) < req[1].targetCount
          /\ (n >= 4 /\ Len(Accumulated(pages, 4)) < req[1].targetCount) => n = 5

\* five requests although the target was small: the pages were non-empty but
\* held too few non-repost records
C13_Witness ==
    /\ req[1].pc = "fetched"
    /\ req[1].upCalls = 5
    /\ req[1].targetCount = 2
    /\ \A k \in 1..Len(req[1].pageLog) : KeepsOpen(req[1].pageLog[k].response)
    /\ Len(Accumulated(req[1].pageLog, 4)) = 1

\* C14: the call returns at most targetCount records: the first targetCount,
\* in upstream order across pages, of the non-repost records of the pages it
\* fetched; what the last page adds beyond targetCount is cut off.
C14_FirstTargetCount ==
    req[1].pc = "fetched"
    => /\ Len(req[1].fetched) <= req[1].targetCount
       /\ req[1].fetched = FirstN(Accumulated(req[1].pageLog, Len(req[1].pageLog)),
                                  req[1].targetCount)
       /\ Len(req[1].fetchLog) = 1
       /\ req[1].fetchLog[1].tweets = req[1].fetched

\* two pages gave four non-repost records for a target of three
C14_Witness ==
    /\ req[1].pc = "fetched"
    /\ req[1].targetCount = 3
    /\ Len(req[1].pageLog) = 2
    /\ Len(Accumulated(req[1].pageLog, 1)) = 2
    /\ Len(Accumulated(req[1].pageLog, 2)) = 4
    /\ Len(req[1].fetched) = 3

\* C16: if the page request k >= 2 fails, the call issues no further request
\* and returns, as an ordinary result, the non-repost records accumulated from
\* pages 1..k-1, cut to targetCount.
C16_FailureKeepsPartial ==
    \A k \in 2..Len(req[1].pageLog) :
        req[1].pageLog[k].response.status # "success"
        => /\ k = Len(req[1].pageLog)
           /\ req[1].upCalls = k
           /\ req[1].pc = "fetched"
           /\ req[1].fetch = Nothing
           /\ req[1].fetched = FirstN(Accumulated(req[1].pageLog, k - 1),
                                      req[1].targetCount)

\* the third request failed and the records of the first two pages came back
C16_Witness ==
    /\ Len(req[1].pageLog) = 3
    /\ req[1].pageLog[3].response = ErrorResponse
    /\ req[1].pc = "fetched"
    /\ Len(Accumulated(req[1].pageLog, 1)) >= 1
    /\ Len(Accumulated(req[1].pageLog, 2)) > Len(Accumulated(req[1].pageLog, 1))
    /\ Len(req[1].fetched) = Len(Accumulated(req[1].pageLog, 2))

\* C18, the states of a call: the first request carried the empty cursor,
\* request k+1 carried the next cursor of response k, and at most one request
\* is unanswered, which is the case exactly while the call waits
C18_Chained ==
    LET pages == req[1].pageLog IN
    /\ Len(pages) >= 1 => pages[1].cursor = ""
    /\ \A k \in 1..(Len(pages) - 1) : pages[k + 1].cursor = NextCursor(pages[k].response)
    /\ req[1].upCalls - Len(pages) \in {0, 1}
    /\ req[1].upCalls - Len(pages) = 1 <=> req[1].pc = "fetch_wait"
    /\ req[1].pc = "fetch_wait"
       => The(req[1].fetch).cursor =
             IF Len(pages) = 0 THEN "" ELSE NextCursor(pages[Len(pages)].response)

\* C18, the steps of a call: a further request is issued only in the step that
\* receives the response to the one before, one request at a time
C18_OneAtATime ==
    req'[1].upCalls # req[1].upCalls
    => /\ req'[1].upCalls = req[1].upCalls + 1
       /\ req[1].upCalls = Len(req[1].pageLog) + (IF req[1].pc = "fetch_wait" THEN 1 ELSE 0)
       /\ req[1].pc = "fetch_wait" => Len(req'[1].pageLog) = req[1].upCalls

\* C18: within one call the page requests are strictly sequential and
\* cursor-chained, and no two of them are in flight together.
C18_SequentialPages == []C18_Chained /\ [][C18_OneAtATime]_vars

\* three requests whose cursors were "", then "c1", then "c2"
C18_Witness ==
    /\ Len(req[1].pageLog) = 3
    /\ req[1].pageLog[1].cursor = ""
    /\ req[1].pageLog[2].cursor = "c1"
    /\ req[1].pageLog[3].cursor = "c2"
    /\ NextCursor(req[1].pageLog[3].response) = "c1"
    /\ req[1].pc = "fetch_wait"

\* C19: after a page with no next cursor, an empty next cursor or zero records
\* (in either response shape) no further request is issued; a non-empty page
\* of reposts only does not by itself stop the pagination.
C19_StopConditions ==
    LET pages == req[1].pageLog IN
    \A k \in 1..Len(pages) :
        LET response == pages[k].response IN
        PageOk(response)
        => /\ (NextCursor(response) = "" \/ Len(PageRecords(response)) = 0)
              => /\ k = Len(pages)
                 /\ req[1].upCalls = k
                 /\ req[1].pc = "fetched"
           /\ (/\ KeepsOpen(response)
               /\ \A i \in 1..Len(PageRecords(response)) : IsRepost(PageRecords(response)[i])
               /\ k < 5
               /\ Len(Accumulated(pages, k)) < req[1].targetCount)
              => /\ req[1].upCalls >= k + 1
                 /\ k = Len(pages) => req[1].pc = "fetch_wait"

\* a page of reposts only was followed by a further request, and the call then
\* stopped at a page of zero records that carried a cursor under data
C19_Witness ==
    /\ Len(req[1].pageLog) = 2
    /\ req[1].pageLog[1].response = PageAllReposts
    /\ req[1].pageLog[2].response = PageZeroNested
    /\ req[1].upCalls = 2
    /\ req[1].pc = "fetched"
    /\ req[1].fetched = <<>>

\* ------------------------------------ properties of the tools' fetches
\* the completed calls of getUserTweets, as <<request, position>>
Fetches == {x \in Req \X (1..4) : x[2] <= Len(req[x[1]].fetchLog)}
FetchAt(x) == req[x[1]].fetchLog[x[2]]
AllAccumulated(x) ==
    Accumulated(PagesFor(req[x[1]], FetchAt(x).idx),
                Len(PagesFor(req[x[1]], FetchAt(x).idx)))

TextIsRepost(text) ==
    Len(text) >= 4 /\ text[1] = "R" /\ text[2] = "T" /\ text[3] = " " /\ text[4] = "@"

\* C15 as stated: no record returned by getUserTweets is a repost (text
\* beginning with "RT @", isRetweet = true or retweeted = true) and every other
\* record of the fetched pages is kept, up to the truncation; hence no record
\* stored in the cache is a repost: the stored posts are the returned ones, one
\* for one, and none of them has a text beginning with "RT @".
C15_NoReposts ==
    /\ \A x \in Fetches :
          /\ \A i \in 1..Len(FetchAt(x).tweets) : ~ IsRepost(FetchAt(x).tweets[i])
          /\ FetchAt(x).tweets = FirstN(AllAccumulated(x), req[x[1]].targetCount)
    /\ \A x \in Puts :
          LET stored == The(PutAt(x).record.profile_data).tweets
              fetched == req[x[1]].fetchLog[Len(req[x[1]].fetchLog)].tweets
          IN /\ Len(stored) = Len(fetched)
             /\ \A i \in 1..Len(stored) : ~ TextIsRepost(stored[i].text)
    /\ \A k \in DOMAIN memoryCache :
          \A i \in 1..Len(The(memoryCache[k].profile_data).tweets) :
              ~ TextIsRepost(The(memoryCache[k].profile_data).tweets[i].text)

\* C17 as stated: analyze_twitter_profile ends in the "unable to fetch" error
\* only when the first page request failed; a request whose first page request
\* succeeded never ends in that error.
C17_OnlyFirstPageFailure ==
    \A r \in Req :
        (/\ req[r].tool = "analyze"
         /\ IsSome(req[r].result)
         /\ The(req[r].result).kind = "unable")
        => /\ Len(req[r].pageLog) >= 1
           /\ req[r].pageLog[1].response.status # "success"

\* C17 (amended): analyze_twitter_profile ends in the "unable to fetch" error
\* exactly when getUserTweets returned no record: always when the first page
\* request failed, never when a non-repost record had been accumulated before
\* a later page failed, but also when the pages that were fetched successfully
\* held no non-repost record.
C17_ErrorIffNothingFetched ==
    \A r \in Req :
        (req[r].tool = "analyze" /\ Len(req[r].fetchLog) >= 1)
        => LET pages == PagesFor(req[r], 1)
               acc == Accumulated(pages, Len(pages))
               result == The(req[r].result)
           IN /\ req[r].pc = "done"
              /\ IsSome(req[r].result)
              /\ result.kind = "unable" <=> acc = <<>>
              /\ result.isError <=> acc = <<>>
              /\ (Len(pages) >= 1 /\ pages[1].response.status # "success")
                 => result.kind = "unable"
              /\ acc # <<>> => result.kind = "stored"

\* the second page request failed after the first page had given a record,
\* and the request ended without an error
C17_Witness ==
    \E r \in Req :
        /\ req[r].tool = "analyze" /\ req[r].pc = "done"
        /\ Len(req[r].pageLog) = 2
        /\ req[r].pageLog[1].response.status = "success"
        /\ req[r].pageLog[2].response = ErrorResponse
        /\ Len(req[r].fetchLog[1].tweets) = 1
        /\ The(req[r].result).kind = "stored"
        /\ ~ The(req[r].result).isError

AfterEmptySelect(r) ==
    Advance(getCachedProfileResume(
                [Machine(r) EXCEPT !.rq.dbres = Some([error |-> FALSE, data |-> <<>>])], now),
            now, useDatabase).rq

\* C21, the step in which get resumes with a failed select
C21_FailedReadStep(r) ==
    (/\ req[r].pc = "get_wait"
     /\ IsSome(req[r].dbres)
     /\ The(req[r].dbres).error
     /\ req'[r] # req[r])
    => /\ Len(req'[r].getLog) = Len(req[r].getLog) + 1
       /\ req'[r].getLog[Len(req'[r].getLog)].result = Nothing
       /\ memoryCache' = memoryCache
       /\ req'[r].result = Nothing
       /\ req'[r].pc = "fetch_wait"
       /\ req'[r].upCalls = req[r].upCalls + 1
       /\ req'[r] = AfterEmptySelect(r)

\* C21: a failure of the durable store during a read never reaches the caller:
\* get returns a miss, and the request goes on with an upstream fetch exactly
\* as it does when the store holds no row for the handle.
C21_ReadFailureIsMiss ==
    [][\A r \in Req : C21_FailedReadStep(r)]_vars

\* the table held a row of the handle from the start, the select failed, get
\* returned a miss, and the tool fetched, stored and answered without error
C21_Witness ==
    \E x \in Gets :
        /\ GetAt(x).queried
        /\ GetAt(x).result = Nothing
        /\ \E p \in twitter_profiles \cap {RowOld, RowEdge, RowInvalid} :
              p.handle = GetAt(x).start.username
        /\ req[x[1]].pc = "done"
        /\ ~ The(req[x[1]].result).isError
        /\ Len(req[x[1]].putLog) = 1

\* C22, first half: without the credential no tool of normal operation is
\* ever registered or run
C22_NeverNormalOperation ==
    ~ server.apiKey
    => /\ server.tools \subseteq LimitedTools
       /\ \A r \in Req : req[r].tool \in {"none", "setup_instructions"}

\* C22: when the upstream credential is absent at startup the analyze,
\* generate and config tools are never registered or callable, and the
\* setup-instructions diagnostic, the only operation exposed, stays available
\* to answer calls once the process has started.
C22_DiagnosticStaysAvailable ==
    /\ C22_NeverNormalOperation
    /\ (~ server.apiKey /\ server.phase # "boot") => Callable("setup_instructions")

\* the payloads a tool returns: what the text says, and the isError flag
PayloadKinds ==
    {"cached", "stored", "unable", "no_usernames", "no_posts", "prompt", "config"}
ErrorKinds == {"unable", "no_usernames", "no_posts"}

IsPayload(result) ==
    /\ IsSome(result)
    /\ {"isError", "kind"} \subseteq DOMAIN The(result)
    /\ The(result).kind \in PayloadKinds
    /\ The(result).isError = (The(result).kind \in ErrorKinds)

\* C23, at every moment: a tool that has ended has returned a payload, and a
\* tool that has not ended is waiting for the upstream or the durable store
C23_PayloadOrWaiting ==
    \A r \in Req :
        /\ req[r].pc \in RestLabels
        /\ req[r].pc = "done" => IsPayload(req[r].result)
        /\ req[r].pc \in WaitLabels
           => /\ req[r].result = Nothing
              /\ req[r].tool \in {"analyze", "generate"}

DefaultPost ==
    [id |-> "", text |-> <<>>, like_count |-> 0, retweet_count |-> 0, reply_count |-> 0,
     quote_count |-> 0, created_at |-> "", is_reply |-> FALSE, hashtags |-> <<>>,
     mentions |-> <<>>, urls |-> <<>>, language |-> ""]

\* the key names the normalizer knows
KnownKeys ==
    {"id", "tweet_id", "text", "tweet_text", "content", "likeCount", "like_count",
     "favorites", "retweetCount", "retweet_count", "replyCount", "reply_count",
     "quoteCount", "quote_count", "createdAt", "created_at", "isReply", "is_reply",
     "lang", "language", "entities"}

Normalized == call.fn = "normalizeTweetData" /\ IsSome(call.out)

\* the value of the first of the keys the object carries
RECURSIVE FirstPresent(_, _, _)
FirstPresent(tweet, keys, dflt) ==
    IF keys = <<>> THEN dflt
    ELSE IF Head(keys) \in DOMAIN tweet THEN tweet[Head(keys)]
    ELSE FirstPresent(tweet, Tail(keys), dflt)

\* C24: normalize returns, for every input, a record in which every field of
\* a NormalizedPost is defined, and for null, undefined, the empty object and
\* an object with none of the known fields the record with every field at its
\* default.
C24_TotalWithDefaults ==
    Normalized
    => /\ DOMAIN The(call.out) = DOMAIN DefaultPost
       /\ (call.arg = Nothing \/ DOMAIN The(call.arg) \cap KnownKeys = {})
          => The(call.out) = DefaultPost

\* C25: normalizing a record that normalize has returned gives a record with
\* the same value in every field.
C25_Idempotent ==
    (Normalized /\ IsSome(call.again)) => The(call.again) = The(call.out)

\* C26: text is the value of the first present of text, tweet_text, content,
\* and like_count the value of the first present of likeCount, like_count,
\* favorites, whatever other keys the object carries and also when the value
\* is 0 or the empty string.
C26_FirstMatchWins ==
    (Normalized /\ IsSome(call.arg))
    => /\ The(call.out).text
            = FirstPresent(The(call.arg), <<"text", "tweet_text", "content">>, <<>>)
       /\ The(call.out).like_count
            = FirstPresent(The(call.arg), <<"likeCount", "like_count", "favorites">>, 0)

\* ------------------------------------------------------------ the analyzer
ProfileFields ==
    {"metrics", "style_assessment", "style_signature", "example_tweets", "analyzed_at"}
ErrorShaped(p) == "error" \in DOMAIN p
AnalyzeDone == call.fn = "analyzeTweets" /\ IsSome(call.out)
AnalyzedTwice == call.fn = "analyzeTweets" /\ IsSome(call.out) /\ IsSome(call.again)
InputEmpty == call.arg = Nothing \/ Len(The(call.arg)) = 0

\* the profiles the finished and running requests have rendered guidance from
RenderedProfiles ==
    UNION {{The(req[r].result).rendered[i].profile :
               i \in 1..Len(The(req[r].result).rendered)} :
           r \in {q \in Req : IsSome(req[q].result)
                               /\ The(req[q].result).kind = "guidance"}}

\* C27: analyzeTweets returns the error-shaped result, which carries none of
\* the profile fields, exactly when its input is absent or the empty list, and
\* a profile with all of them for every other input; no record in the cache,
\* no record ever stored, no profile a tool returns and no profile a guidance
\* is rendered from is error-shaped.
C27_ErrorOnlyOnEmpty ==
    /\ AnalyzeDone =>
          /\ ErrorShaped(The(call.out)) <=> InputEmpty
          /\ ErrorShaped(The(call.out)) => DOMAIN The(call.out) \cap ProfileFields = {}
          /\ ~ ErrorShaped(The(call.out)) => ProfileFields \subseteq DOMAIN The(call.out)
    /\ \A u \in DOMAIN memoryCache : ~ ErrorShaped(The(memoryCache[u].profile_data))
    /\ \A r \in Req :
          /\ \A i \in 1..Len(req[r].putLog) :
                ~ ErrorShaped(The(req[r].putLog[i].record.profile_data))
          /\ \A i \in 1..Len(req[r].userTweets) :
                ~ ErrorShaped(req[r].userTweets[i].profile)
          /\ (IsSome(req[r].result) /\ The(req[r].result).kind = "analysis")
                => ~ ErrorShaped(The(req[r].result).analysis)
          /\ (IsSome(req[r].result) /\ The(req[r].result).kind = "cached")
                => ~ ErrorShaped(The(req[r].result).profile_data)
    /\ \A p \in RenderedProfiles : ~ ErrorShaped(p)

\* a tool call ended with the error payload because the upstream gave it an
\* empty list, nothing was analyzed or stored for it, and another call has
\* rendered guidance from a stored profile
C27_Witness ==
    \E r, q \in Req :
        /\ req[r].pc = "done" /\ req[r].tool \in AnalyzerToolNames
        /\ The(req[r].result).isError /\ The(req[r].result).kind = "unable"
        /\ Len(req[r].fetchLog) > 0
        /\ req[r].fetchLog[Len(req[r].fetchLog)].tweets = <<>>
        /\ req[r].putLog = <<>>
        /\ req[q].pc = "done" /\ req[q].tool = "analyzer.generate"
        /\ The(req[q].result).kind = "guidance"
        /\ req[q].putLog # <<>>

\* analyzeTweets has returned the error-shaped result for the empty list
C27_EmptyInputReached ==
    AnalyzeDone /\ call.arg = Some(<<>>) /\ ErrorShaped(The(call.out))

C29_CountsNonReposts ==
    \A r \in Req :
        (/\ req[r].tool = "analyzer.analyze"
         /\ IsSome(req[r].result)
         /\ The(req[r].result).kind = "analysis")
        => LET posts == PageRecords(req[r].pageLog[Len(req[r].pageLog)].response)
               kept == Len(SelectSeq(posts, NotRepost))
               put == req[r].putLog[Len(req[r].putLog)].record
           IN /\ The(req[r].result).analysis.metrics.tweet_count = kept
              /\ The(put.profile_data).metrics.tweet_count = kept

\* the text of a post as the analyzer reads it, and the occurrences of a
\* character in the posts of the input
InputText(i) ==
    IF IsSome(The(call.arg)[i]) /\ "text" \in DOMAIN The(The(call.arg)[i])
    THEN The(The(call.arg)[i]).text ELSE <<>>
Occurrences(c) ==
    Cardinality({ij \in (1..Len(The(call.arg))) \X (1..8) :
                    /\ ij[2] <= Len(InputText(ij[1]))
                    /\ InputText(ij[1])[ij[2]] = c})

ToneByRule(E, Q, N) ==
    IF E > Q /\ 10 * E > 3 * N THEN "emphatic"
    ELSE IF E > Q THEN "assertive"
    ELSE IF Q > E /\ 10 * Q > 3 * N THEN "inquisitive"
    ELSE "neutral"

\* C30: the tone of a profile follows the rule on the exclamation count E, the
\* question count Q and the post count N: emphatic or assertive when E > Q,
\* inquisitive when Q > E and Q > 0.3 N, neutral otherwise (E = Q included).
C30_ToneRule ==
    (AnalyzeDone /\ ~ InputEmpty) =>
        The(call.out).style_assessment.tone
            = ToneByRule(Occurrences("!"), Occurrences("?"), Len(The(call.arg)))

\* the traits detected, as a set
TraitSet == {The(call.traits)[i] : i \in 1..Len(The(call.traits))}
PersonalityLabels ==
    {"the provocateur", "the influencer", "the memer", "the poet", "the poster"}

\* C31: for every set of traits the personality type is the label of the first
\* rule that matches, in the order provocateur (minimalist and emphatic),
\* influencer (connector and expressive), memer (humorous), poet (expressive
\* and not minimalist), poster (otherwise); it is always one of the five.
C31_FirstMatchingRule ==
    (call.fn = "detectSignatureTraits" /\ IsSome(call.out)) =>
        /\ The(call.out) \in PersonalityLabels
        /\ The(call.out) =
              CASE {"minimalist", "emphatic"} \subseteq TraitSet -> "the provocateur"
                [] ~ ({"minimalist", "emphatic"} \subseteq TraitSet)
                   /\ {"connector", "expressive"} \subseteq TraitSet -> "the influencer"
                [] ~ ({"minimalist", "emphatic"} \subseteq TraitSet)
                   /\ ~ ({"connector", "expressive"} \subseteq TraitSet)
                   /\ "humorous" \in TraitSet -> "the memer"
                [] ~ ({"minimalist", "emphatic"} \subseteq TraitSet)
                   /\ ~ ({"connector", "expressive"} \subseteq TraitSet)
                   /\ "humorous" \notin TraitSet
                   /\ "expressive" \in TraitSet /\ "minimalist" \notin TraitSet -> "the poet"
                [] OTHER -> "the poster"

\* all five traits were detected, so that several rules match, and the first
\* one gave the label
C31_Witness ==
    /\ call.fn = "detectSignatureTraits"
    /\ IsSome(call.out)
    /\ TraitSet = {"minimalist", "emphatic", "expressive", "humorous", "connector"}
    /\ The(call.out) = "the provocateur"

\* the texts of the posts handed to the example selection
ExampleInput == [i \in 1..Len(call.arg) |-> call.arg[i].text]
DistinctTexts == {ExampleInput[i] : i \in 1..Len(ExampleInput)} \ {<<>>}
FirstAt(text) == CHOOSE i \in 1..Len(ExampleInput) :
                    /\ ExampleInput[i] = text
                    /\ \A j \in 1..(i - 1) : ExampleInput[j] # text
ContainsRocket(text) ==
    \E i \in 1..(Len(text) - 1) : text[i] = "D83D" /\ text[i + 1] = "DE80"
\* the first bucket a text belongs to
BucketOf(text) ==
    IF Len(text) < 40 THEN 1
    ELSE IF Len(text) > 120 THEN 2
    ELSE IF ContainsRocket(text) THEN 3
    ELSE IF \E i \in 1..Len(text) : text[i] \in {"?", "!"} THEN 4
    ELSE 5
Before(a, b) ==
    \/ BucketOf(a) < BucketOf(b)
    \/ BucketOf(a) = BucketOf(b) /\ FirstAt(a) < FirstAt(b)
TenOrAll == IF Cardinality(DistinctTexts) < 10 THEN Cardinality(DistinctTexts) ELSE 10

BlendOfProfiles ==
    /\ call.fn = "buildMixedStyleGuidance"
    /\ IsSome(call.out)
    /\ "metrics" \in DOMAIN call.arg[1]
    /\ "metrics" \in DOMAIN call.arg[2]
\* v is the mean of a and b (in units of 1/scale) rounded to the nearest
\* integer, a half going up
IsRoundedMean(v, a, b, scale) ==
    2 * scale * v - scale <= a + b /\ a + b < 2 * scale * v + scale
TraitsIn(p) ==
    {p.style_signature.signature_traits[i] :
        i \in 1..Len(p.style_signature.signature_traits)}

\* C33: for every pair of profiles the blend has avgLength = round(mean of the
\* avg_length values), avgHashtags = max(1, round(mean of the hashtag_usage
\* values)), hence at least 1, avgMentions = round(mean of the mention_usage
\* values), and as combined traits the union of both trait sets, each trait
\* once.
C33_BlendArithmetic ==
    BlendOfProfiles =>
        LET out == The(call.out)
            m1 == call.arg[1].metrics
            m2 == call.arg[2].metrics
        IN /\ out.avgLength.kind = "number"
           /\ IsRoundedMean(out.avgLength.value, m1.avg_length, m2.avg_length, 10)
           /\ out.avgHashtags.kind = "number"
           /\ out.avgHashtags.value >= 1
           /\ \/ IsRoundedMean(out.avgHashtags.value, m1.hashtag_usage, m2.hashtag_usage, 100)
              \/ /\ out.avgHashtags.value = 1
                 /\ IsRoundedMean(0, m1.hashtag_usage, m2.hashtag_usage, 100)
           /\ out.avgMentions.kind = "number"
           /\ IsRoundedMean(out.avgMentions.value, m1.mention_usage, m2.mention_usage, 100)
           /\ {out.mixedTraits[i] : i \in 1..Len(out.mixedTraits)}
                 = TraitsIn(call.arg[1]) \cup TraitsIn(call.arg[2])
           /\ \A i, j \in 1..Len(out.mixedTraits) :
                 i # j => out.mixedTraits[i] # out.mixedTraits[j]

\* the blend of lengths 100 and 140, hashtag usages 0 and 0, mention usages
\* 1.49 and 1.49 and overlapping trait sets: 120, 1, 1 and three traits
C33_Witness ==
    /\ BlendOfProfiles
    /\ call.arg[1].metrics = [avg_length |-> 1000, hashtag_usage |-> 0, mention_usage |-> 149]
    /\ call.arg[2].metrics = [avg_length |-> 1400, hashtag_usage |-> 0, mention_usage |-> 149]
    /\ call.arg[1].style_signature.signature_traits = <<"minimalist", "emphatic">>
    /\ call.arg[2].style_signature.signature_traits = <<"emphatic", "humorous">>
    /\ The(call.out).avgLength.value = 120
    /\ The(call.out).avgHashtags.value = 1
    /\ The(call.out).avgMentions.value = 1
    /\ The(call.out).mixedTraits = <<"minimalist", "emphatic", "humorous">>

\* a payload without metrics was blended: the averages are not numbers
C33_NotAProfile ==
    /\ call.fn = "buildMixedStyleGuidance"
    /\ IsSome(call.out)
    /\ "metrics" \notin DOMAIN call.arg[1]
    /\ The(call.out).avgHashtags.kind = "NaN"

\* -------------------------------------------- generate_tweet over a list
GenerateDone(r) == req[r].pc = "done" /\ req[r].tool = "generate"
\* the posts the pass for the i-th username of request r obtained: those
\* returned by the fetch, or those of the cached record it was served
PostsObtained(r, i) ==
    IF \E k \in 1..Len(req[r].fetchLog) : req[r].fetchLog[k].idx = i
    THEN LET k == CHOOSE k \in 1..Len(req[r].fetchLog) : req[r].fetchLog[k].idx = i
         IN MapSeq(req[r].fetchLog[k].tweets, LAMBDA tw : normalizeTweetData(Some(tw)).text)
    ELSE IF \E k \in 1..Len(req[r].served) : req[r].served[k].idx = i
    THEN LET k == CHOOSE k \in 1..Len(req[r].served) : req[r].served[k].idx = i
         IN MapSeq(The(req[r].served[k].profile.profile_data).tweets, textOf)
    ELSE <<>>
Usable(text) == text # <<>> /\ ~ startsWith(text, RT_PREFIX)
HasUsable(r, i) ==
    \E k \in 1..Len(PostsObtained(r, i)) : Usable(PostsObtained(r, i)[k])
\* the blocks of the result of request r (none when it is an error)
Blocks(r) ==
    IF "userTweets" \in DOMAIN The(req[r].result)
    THEN The(req[r].result).userTweets ELSE <<>>
\* the positions of the list that got a block, in order: position i is taken
\* by block number (count of Wanted positions up to i)
BlocksFollow(r, Wanted(_)) ==
    LET n == Len(req[r].usernames)
        rank(i) == Cardinality({j \in 1..i : Wanted(j)})
    IN /\ Len(Blocks(r)) = rank(n)
       /\ \A i \in 1..n : Wanted(i) => Blocks(r)[rank(i)].username = req[r].usernames[i]
\* the usernames were looked up one after another, in input order, each once
InInputOrder(r) ==
    /\ Len(req[r].getLog) = Len(req[r].usernames)
    /\ \A k \in 1..Len(req[r].getLog) :
          /\ req[r].getLog[k].start.idx = k
          /\ req[r].getLog[k].start.username = req[r].usernames[k]
    /\ \A k \in 1..Len(req[r].pageLog) : \A l \in 1..Len(req[r].pageLog) :
          k < l => req[r].pageLog[k].idx <= req[r].pageLog[l].idx
BlocksWellFormed(r) ==
    \A b \in 1..Len(Blocks(r)) :
        /\ Len(Blocks(r)[b].examples) <= 15
        /\ Len(Blocks(r)[b].examples) >= 1
        /\ \A e \in 1..Len(Blocks(r)[b].examples) :
              ~ startsWith(Blocks(r)[b].examples[e], RT_PREFIX)

C34_TwoBlocks ==
    /\ GenerateDone(1)
    /\ Len(Blocks(1)) = 2
    /\ Blocks(1)[1].username # Blocks(1)[2].username
    /\ Blocks(1)[1].username = req[1].usernames[1]

\* a call for one username obtained one post, not a repost, whose text is
\* empty, stored it, and ended with the error and no block
C34_PostsButNoBlock ==
    /\ GenerateDone(1)
    /\ Len(req[1].usernames) = 1
    /\ Len(req[1].fetchLog) = 1
    /\ req[1].fetchLog[1].tweets = <<RawBlank>>
    /\ Len(req[1].putLog) = 1
    /\ The(req[1].result).isError

\* ------------------------------------------------------- the cache tiers
\* C35: under every interleaving, no step replaces the in-process entry of a
\* handle by a record with an older created_at; in particular a get that
\* resumes from its durable query does not overwrite the newer record a
\* concurrent put has placed in the map.
C35_NeverReplacedByOlder ==
    [][\A k \in DOMAIN memoryCache \cap DOMAIN memoryCache' :
           memoryCache'[k].created_at >= memoryCache[k].created_at]_vars

\* the map holds, within the TTL, a record of the account that username names
CachedAccount(username) ==
    \E k \in DOMAIN memoryCache :
        /\ cleanUsername(k) = cleanUsername(username)
        /\ withinExpiry(memoryCache[k].created_at, now)
\* request r has just been started
StartedNow(r) == started' = started + 1 /\ req'[r] # req[r]

\* C36: the cache identifies a handle with its leading "@" stripped, as the
\* fetch does: a request for an account whose profile the map holds within
\* the TTL, under either spelling, is served from the cache with no upstream
\* call, and the map never holds two entries for one account.
C36_OneEntryPerAccount ==
    [][/\ \A k1, k2 \in DOMAIN memoryCache' :
             cleanUsername(k1) = cleanUsername(k2) => k1 = k2
       /\ \A r \in Req :
             StartedNow(r) /\ CachedAccount(req'[r].usernames[1])
                => /\ req'[r].pc = "done"
                   /\ The(req'[r].result).kind = "cached"
                   /\ req'[r].upCalls = 0]_vars

\* a request for "h" after one for "@h" was stored went upstream, and the map
\* holds an entry under each spelling
C36_TwoEntries ==
    /\ DOMAIN memoryCache = {H, AtH}
    /\ \E r \in Req : req[r].usernames = <<H>> /\ req[r].upCalls = 1

\* in this step the fetch of request r has returned, with no posts
ZeroPostsNow(r) ==
    /\ Len(req'[r].fetchLog) = Len(req[r].fetchLog) + 1
    /\ req'[r].fetchLog[Len(req'[r].fetchLog)].tweets = <<>>

\* C37: when the fetch of a request returns zero posts (upstream failure or
\* empty account), the step changes neither the in-process map nor the
\* durable table, and the request builds no record, starts no insert and
\* records no put: an entry of the handle, fresh, expired or absent, stays as
\* it was.
C37_ZeroPostsNoWrite ==
    [][\A r \in Req :
          ZeroPostsNow(r) =>
             /\ memoryCache' = memoryCache
             /\ twitter_profiles' = twitter_profiles
             /\ nextId' = nextId
             /\ req'[r].putLog = req[r].putLog
             /\ req'[r].dbop = Nothing]_vars

\* a request ended without posts while the map holds an expired entry of the
\* handle, written by an earlier request
C37_Witness ==
    \E r \in Req :
        /\ req[r].pc = "done"
        /\ Len(req[r].fetchLog) = 1
        /\ req[r].fetchLog[1].tweets = <<>>
        /\ The(req[r].result).isError
        /\ H \in DOMAIN memoryCache
        /\ ~ withinExpiry(memoryCache[H].created_at, now)

\* a request ended without posts while the map holds a fresh entry of the
\* handle
C37_FreshKept ==
    \E r \in Req :
        /\ req[r].pc = "done"
        /\ Len(req[r].fetchLog) = 1
        /\ req[r].fetchLog[1].tweets = <<>>
        /\ H \in DOMAIN memoryCache
        /\ withinExpiry(memoryCache[H].created_at, now)

\* the payload of a record of the raw-corpus revision: a tweets list of 1 to
\* 100 records, none of whose text begins with "RT @"
CorpusValid(record) ==
    /\ hasValidStructure(record)
    /\ LET tweets == The(record.profile_data).tweets
       IN /\ Len(tweets) >= 1
          /\ Len(tweets) <= TARGET_COUNT
          /\ \A i \in 1..Len(tweets) : ~ startsWith(tweets[i].text, RT_PREFIX)
\* the durable table holds only rows written by the raw-corpus revision
OwnRowsOnly == \A row \in twitter_profiles : hasValidStructure(row)

\* C38: provided the durable store contains only records inserted by this
\* program, every record held in the in-process map has a structurally valid
\* payload: a tweets list of at least 1 and at most 100 records, none of
\* whose text begins with "RT @"; an empty corpus is never cached.
C38_MapPayloadValid ==
    OwnRowsOnly => \A k \in DOMAIN memoryCache : CorpusValid(memoryCache[k])

\* ------------------------------------------------------ the transport layer
OpenSessions == {sessions[i].sessionId : i \in {j \in 1..Len(sessions) : sessions[j].state = "open"}}

\* C39: the registry contains exactly the session ids of the SSE connections
\* opened and not yet closed; a POST is handed to a transport only if its
\* sessionId is in the registry, and a POST whose session id is missing,
\* unknown or already closed is answered with status 400 and reaches no
\* transport.
C39_RegistryAndRouting ==
    /\ DOMAIN transports = OpenSessions
    /\ \A i \in 1..Len(messages) :
          /\ IsSome(messages[i].handedTo) => The(messages[i].registeredAtHandOver)
          /\ messages[i].pc = "done" /\ ~ messages[i].registeredAtArrival
                => messages[i].status = "400" /\ ~ IsSome(messages[i].handedTo)

\* the registry part on its own: the keys of the registry are the session ids
\* of the open connections
C39_RegistryIsOpenSessions == DOMAIN transports = OpenSessions

\* a POST naming the key "constructor", which the registry inherits, was
\* answered with 500 by handleMessages
C39_InheritedKey ==
    \E i \in 1..Len(messages) :
        /\ messages[i].sessionId = Some("constructor")
        /\ messages[i].status = "500"
        /\ revision = "handler"

\* a POST was handed to the transport of a session that closed, and left the
\* registry, while the body was being read
C39_ClosedWhileReading ==
    \E i \in 1..Len(messages) :
        /\ IsSome(messages[i].handedTo)
        /\ messages[i].registeredAtArrival
        /\ ~ The(messages[i].registeredAtHandOver)

====
